---- MODULE Spec2Model ----
(***************************************************************************)
(* A model of the NES emulator's master clock (emulator/clock.rs), of its   *)
(* PPU scanline/dot state machine (emulator/ppu/mod.rs), of the NMI glue   *)
(* and the OAM DMA controller (emulator/mod.rs), of the controller port    *)
(* (emulator/controller.rs), of the APU (emulator/apu/mod.rs) and of the   *)
(* CPU and its RAM (simul/cpu/mod.rs, emulator/memory.rs).                 *)
(*                                                                         *)
(* Sequences are 1-based here: ticker_ix and heap positions are the Rust   *)
(* indices plus one.                                                       *)
(***************************************************************************)
EXTENDS Integers, Sequences, FiniteSets, TLC

VARIABLES
    tickers,            \* Clock.tickers: Vec of the managed tickers
    turn_order,         \* Clock.turn_order: the BinaryHeap's backing array of TickNodes
    num_ticks,          \* Clock.num_ticks
    elapsed_cycles,     \* Clock.elapsed_cycles
    elapsed_seconds,    \* Clock.elapsed_seconds
    cycles_this_second, \* Clock.cycles_this_second
    ppu,                \* the PPU: a record of its fields, and whether it has panicked
    ppu_dots,           \* the sum of the dots PPU::tick has returned to its caller
    nes,                \* NES.nmi_pin, and what NES::tick has sampled and delivered
    dma,                \* the DMAController, the $4014 register and what its ticks did
    controller,         \* the Controller, its last read and its last frozen state
    apu,                \* the APU's frame sequencer and length counters
    cpu                 \* the CPU, its RAM, and what its instructions returned

clock_vars == <<tickers, turn_order, num_ticks, elapsed_cycles, elapsed_seconds,
                cycles_this_second>>

ppu_vars == <<ppu, ppu_dots>>

machine_vars == <<nes, dma, controller, apu, cpu>>

vars == <<clock_vars, ppu_vars, machine_vars>>

----------------------------------------------------------------------------
(* Bounds of the model. *)

\* At most this many tickers are managed by one clock.
MaxTickers == 3

\* Clock::tick is called at most this many times in Spec.
MaxTicks == 8

\* Clock::tick is called at most this many times in SpecScaled.
MaxScaledTicks == 40

\* The wall clock (whole seconds since Clock::new) read by the drift check.
MaxSeconds == 1

\* NES::tick is called at most this many times.
MaxNESTicks == 8

\* The CPU is ticked by the DMA controller at most this many times.
MaxCpuTicks == 2

\* At most this many key events reach the controller.
MaxKeyEvents == 2

\* The reads made since the strobe was released are counted up to this many.
MaxReleasedReads == 10

\* The reads and writes followed after a hydrate.
MaxOps == 3

\* The APU's cycle counter is followed up to this value.
MaxCycleCounter == 20000

\* At most this many writes load a length counter of the APU.
MaxLengthWrites == 1

\* The PPU's scrolling is followed over the pre-render line and this many
\* render scanlines.
MaxScrollLines == 1

\* Pixels are followed over this many dots of scanline 0.
MaxRenderDots == 8

\* At most this many writes go to the registers of the APU's pulse channels.
MaxPulseWrites == 2

\* The APU's status is followed over this many ticks before and after the
\* four-step sequence ends, with at most MaxStatusWrites writes that load a
\* length counter.
MaxStatusTicks == 3

MaxStatusWrites == 1

----------------------------------------------------------------------------
(* Program constants. *)

DRIFT_RECONCILIATION_FREQUENCY == 1000

NES_CPU_CLOCK_FACTOR == 12

NES_PPU_CLOCK_FACTOR == 4

\* The factors a ScaledTicker is built with: 3 in test_scaled_ticker, the CPU
\* and PPU factors in NES::new; factor 1 stands for a ticker managed unwrapped.
Factors == {1, 3, NES_PPU_CLOCK_FACTOR, NES_CPU_CLOCK_FACTOR}

----------------------------------------------------------------------------
(* Tickers. *)

\* DummyTicker::new wrapped by ScaledTicker::new(delegate, factor).  waited
\* keeps the calls of Clock::tick that have invoked another ticker since this
\* one was managed or last invoked.
NewTicker(factor) == [factor |-> factor, value |-> 0, waited |-> 0]

\* DummyTicker::tick: value += 1, returns 1.
DummyTickerTick(value) == [value |-> value + 1, cycles |-> 1]

\* A ScaledTicker that forgets its factor.
ScaledCycles_Unscaled(cycles, factor) == cycles

\* ScaledTicker::tick: delegate.tick() * factor.  (The product is a u32; with
\* one cycle per delegate tick and the factors above it is at most 12.)
ScaledCycles(cycles, factor) == cycles * factor

\* tickers[ix].borrow_mut().tick(): the ticker afterwards and the cycles returned.
TickerTick(tk) ==
    LET d == DummyTickerTick(tk.value)
    IN  [ticker |-> [tk EXCEPT !.value = d.value],
         cycles |-> ScaledCycles(d.cycles, tk.factor)]

----------------------------------------------------------------------------
(* TickNode and its ordering. *)

\* u64::cmp as -1 (Less), 0 (Equal), 1 (Greater).
U64Cmp(a, b) == IF a < b THEN -1 ELSE IF a = b THEN 0 ELSE 1

\* An ordering that is not flipped: the heap becomes a max-heap.
TickNodeCmp_Unflipped(self, other) ==
    U64Cmp(self.next_tick_cycle, other.next_tick_cycle)

\* An ordering that breaks ties by ticker index, the earlier ticker greater.
TickNodeCmp_ByIndex(self, other) ==
    IF other.next_tick_cycle = self.next_tick_cycle
    THEN U64Cmp(other.ticker_ix, self.ticker_ix)
    ELSE U64Cmp(other.next_tick_cycle, self.next_tick_cycle)

\* Ord for TickNode: flipped, to create a min-heap.
TickNodeCmp(self, other) ==
    U64Cmp(other.next_tick_cycle, self.next_tick_cycle)

\* PartialOrd for TickNode: the comparisons BinaryHeap makes.
Le(a, b) == TickNodeCmp(a, b) <= 0

Ge(a, b) == TickNodeCmp(a, b) >= 0

----------------------------------------------------------------------------
(* std's BinaryHeap over a backing array, as Clock uses it. *)

Swap(data, i, j) == [data EXCEPT ![i] = data[j], ![j] = data[i]]

\* BinaryHeap::sift_up(0, pos): move the element at pos up while it is
\* greater than its parent.
RECURSIVE SiftUp(_, _)
SiftUp(data, pos) ==
    IF pos <= 1
    THEN data
    ELSE LET parent == pos \div 2
         IN  IF Le(data[pos], data[parent])
             THEN data
             ELSE SiftUp(Swap(data, pos, parent), parent)

\* BinaryHeap::sift_down(pos): move the element at pos down while it is
\* less than the greater of its children (the right one on a tie).
RECURSIVE SiftDown(_, _)
SiftDown(data, pos) ==
    LET end   == Len(data)
        left  == 2 * pos
        right == 2 * pos + 1
    IN  IF left > end
        THEN data
        ELSE LET child == IF right <= end /\ Le(data[left], data[right])
                          THEN right ELSE left
             IN  IF Ge(data[pos], data[child])
                 THEN data
                 ELSE SiftDown(Swap(data, pos, child), child)

\* BinaryHeap::push.
HeapPush(data, node) == SiftUp(Append(data, node), Len(data) + 1)

----------------------------------------------------------------------------
(* Clock. *)

\* A node that is scheduled at cycle 0 whatever the clock shows.
ManageNode_AtZero(ix, elapsed) == [ticker_ix |-> ix, next_tick_cycle |-> 0]

\* Clock::manage's node: the new ticker is scheduled at elapsed_cycles.
ManageNode(ix, elapsed) == [ticker_ix |-> ix, next_tick_cycle |-> elapsed]

\* A reschedule that forgets the clock's time.
NextTickCycle_Relative(elapsed, cycles) == cycles

\* Clock::tick: node.next_tick_cycle = elapsed_cycles + cycles.
NextTickCycle(elapsed, cycles) == elapsed + cycles

\* Clock::new.
ClockNew ==
    /\ tickers = <<>>
    /\ turn_order = <<>>
    /\ num_ticks = 0
    /\ elapsed_cycles = 0
    /\ elapsed_seconds = 0
    /\ cycles_this_second = 0

\* Clock::manage, the tickers afterwards: self.tickers.push(ticker).
ManagedTickers(tks, factor) == Append(tks, NewTicker(factor))

\* Clock::manage, the heap afterwards: the node of the ticker just pushed, the
\* last of n tickers, is pushed onto turn_order.
ManagedTurnOrder(heap, n, elapsed) == HeapPush(heap, ManageNode(n, elapsed))

\* Clock::manage with a new DummyTicker scaled by factor.
ClockManage(factor) ==
    /\ tickers' = ManagedTickers(tickers, factor)
    /\ turn_order' = ManagedTurnOrder(turn_order, Len(tickers) + 1, elapsed_cycles)
    /\ UNCHANGED <<num_ticks, elapsed_cycles, elapsed_seconds, cycles_this_second>>

\* Clock::tick, the tickers afterwards: the ticker at ix has been invoked and
\* is now ticked, every other ticker has waited through one more call.
TickedTickers(tks, ix, ticked) ==
    [k \in 1 .. Len(tks) |->
        IF k = ix THEN [ticked EXCEPT !.waited = 0]
        ELSE [tks[k] EXCEPT !.waited = tks[k].waited + 1]]

\* Clock::tick, with running_secs the whole seconds the wall clock shows.
ClockTick(running_secs) ==
    LET some  == turn_order # <<>>
        node  == turn_order[1]
        now   == IF some THEN node.next_tick_cycle ELSE elapsed_cycles
        ticked == TickerTick(tickers[node.ticker_ix])
        spent == IF some THEN cycles_this_second + (now - elapsed_cycles)
                 ELSE cycles_this_second
        reconcile == num_ticks % DRIFT_RECONCILIATION_FREQUENCY = 0
    IN  /\ elapsed_cycles' = now
        /\ tickers' = IF some
                      THEN TickedTickers(tickers, node.ticker_ix, ticked.ticker)
                      ELSE tickers
        /\ turn_order' =
              IF some
              THEN SiftDown([turn_order EXCEPT ![1].next_tick_cycle =
                                 NextTickCycle(now, ticked.cycles)], 1)
              ELSE turn_order
        /\ elapsed_seconds' =
              IF reconcile /\ elapsed_seconds # running_secs
              THEN running_secs ELSE elapsed_seconds
        /\ cycles_this_second' =
              IF reconcile /\ elapsed_seconds # running_secs
              THEN 0 ELSE spent
        /\ num_ticks' = num_ticks + 1

----------------------------------------------------------------------------
(* Bit operations on the PPU's u8 and u16 values. *)

RECURSIVE BitAnd(_, _)
BitAnd(a, b) ==
    IF a = 0 THEN 0
    ELSE (a % 2) * (b % 2) + 2 * BitAnd(a \div 2, b \div 2)

RECURSIVE BitOr(_, _)
BitOr(a, b) ==
    IF a = 0 THEN b
    ELSE IF b = 0 THEN a
    ELSE (IF (a % 2) + (b % 2) > 0 THEN 1 ELSE 0) + 2 * BitOr(a \div 2, b \div 2)

RECURSIVE BitXor(_, _)
BitXor(a, b) ==
    IF a = 0 THEN b
    ELSE IF b = 0 THEN a
    ELSE (((a % 2) + (b % 2)) % 2) + 2 * BitXor(a \div 2, b \div 2)

\* !a on a u16.
Not16(a) == 65535 - a

\* a >> n.
Shr(a, n) == a \div (2 ^ n)

\* a << n on a u16.
Shl16(a, n) == (a * (2 ^ n)) % 65536

----------------------------------------------------------------------------
(* The PPU. *)

\* No address has been computed yet.
NoAddress == 0 - 1

\* ppu::new.  panic is "none" until a panic! is reached; pixels counts the
\* calls of output.emit, pixel is the colour byte last emitted and
\* colour_index the index render_pixel matched on for it; fetch is the byte
\* the last tick read from memory ("nametable", "pattern_low",
\* "pattern_high", or "none"); tile_address and attribute_address are what
\* the methods of those names last returned to a caller outside tick.
PPUNew ==
    [ppuctrl |-> 0, ppumask |-> 0, ppustatus |-> 0, oamaddr |-> 0,
     v |-> 0, t |-> 0, fine_x |-> 0,
     tile_register_low |-> 0, tile_register_high |-> 0,
     tile_latch_low |-> 0, tile_latch_high |-> 0,
     attribute_register_1 |-> 0, attribute_register_2 |-> 0,
     attribute_latch_1 |-> 0, attribute_latch_2 |-> 0,
     scanline |-> 261, cycle |-> 0,
     tmp_pattern_coords |-> 0, pattern_table_side |-> 0,
     pixels |-> 0, pixel |-> 0, colour_index |-> 0, fetch |-> "none",
     tile_address |-> NoAddress, attribute_address |-> NoAddress,
     panic |-> "none"]

\* self.memory.read(addr): memory::new() is zeroed and no code of the PPU
\* writes it.
MemoryRead(addr) == 0

RenderingIsEnabled_BackgroundOnly(p) == BitAnd(p.ppumask, 8) # 0

\* PPU::rendering_is_enabled.
RenderingIsEnabled(p) == BitAnd(p.ppumask, 24) # 0

\* PPU::fine_y_scroll, nametable_select, coarse_y_scroll, coarse_x_scroll.
FineYScroll(v) == BitAnd(Shr(v, 12), 7)

NametableSelect(v) == BitAnd(Shr(v, 10), 3)

CoarseYScroll(v) == BitAnd(Shr(v, 5), 31)

CoarseXScroll(v) == BitAnd(v, 31)

\* PPU::increment_coarse_x.
IncrementCoarseX(v) ==
    IF CoarseXScroll(v) = 31
    THEN BitXor(BitAnd(v, Not16(31)), 1024)
    ELSE v + 1

\* PPU::increment_y, fine Y being 7: v (its fine Y already cleared) with its
\* coarse Y, which is coarse_y, stepped.
IncrementCoarseY(v, coarse_y) ==
    IF coarse_y = 29
    THEN BitOr(BitAnd(BitXor(v, 2048), Not16(992)), Shl16(0, 5))
    ELSE IF coarse_y = 31
    THEN BitOr(BitAnd(v, Not16(992)), Shl16(0, 5))
    ELSE BitOr(BitAnd(v, Not16(992)), Shl16(coarse_y + 1, 5))

\* PPU::increment_y, fine Y being 7: self.v &= !0x700, then the coarse Y step.
IncrementYWrapped(v) == IncrementCoarseY(v, CoarseYScroll(v))

\* PPU::increment_y.
IncrementY(v) ==
    IF FineYScroll(v) < 7
    THEN v + 256
    ELSE IncrementYWrapped(BitAnd(v, Not16(1792)))

\* PPU::tile_address.
TileAddress(p) == BitOr(8192, BitAnd(p.v, 4095))

\* PPU::attribute_address.
AttributeAddress(p) ==
    BitOr(BitOr(BitOr(9152, NametableSelect(p.v)), BitAnd(Shr(p.v, 4), 56)),
          BitAnd(Shr(p.v, 2), 7))

\* PPU::pattern_address_low.
PatternAddressLow(p) ==
    BitOr(BitOr(Shl16(p.pattern_table_side, 12), Shl16(p.tmp_pattern_coords, 4)),
          FineYScroll(p.v))

\* PPU::pattern_address_high.
PatternAddressHigh(p) ==
    BitOr(BitOr(BitOr(Shl16(p.pattern_table_side, 12), Shl16(p.tmp_pattern_coords, 4)),
                8),
          FineYScroll(p.v))

\* PPU::reload_shift_registers.
ReloadShiftRegisters(p) ==
    [p EXCEPT !.tile_register_low =
                  BitOr(BitAnd(p.tile_register_low, 255), Shl16(p.tile_latch_low, 8)),
              !.tile_register_high =
                  BitOr(BitAnd(p.tile_register_high, 255), Shl16(p.tile_latch_high, 8)),
              !.attribute_register_1 = p.attribute_latch_1,
              !.attribute_register_2 = p.attribute_latch_2]

\* PPU::shift_registers.
ShiftRegisters(p) ==
    [p EXCEPT !.tile_register_low = Shr(p.tile_register_low, 1),
              !.tile_register_high = Shr(p.tile_register_high, 1)]

\* PPU::fetch_tile_data.
FetchTileData(p) ==
    LET phase == p.cycle % 8
    IN  IF phase = 1
        THEN [p EXCEPT !.tmp_pattern_coords = MemoryRead(TileAddress(p)),
                       !.fetch = "nametable"]
        ELSE IF phase = 5
        THEN [p EXCEPT !.tile_latch_low = MemoryRead(PatternAddressLow(p)),
                       !.fetch = "pattern_low"]
        ELSE IF phase = 7
        THEN [p EXCEPT !.tile_latch_high = MemoryRead(PatternAddressHigh(p)),
                       !.fetch = "pattern_high"]
        ELSE p

\* PPU::render_pixel, the colour index: (bg_high_bit << 1) & bg_low_bit.
ColourIndex(p) ==
    BitAnd(Shl16(BitAnd(Shr(p.tile_register_high, p.fine_x), 1), 1),
           BitAnd(Shr(p.tile_register_low, p.fine_x), 1))

\* PPU::render_pixel, the byte of the Colour returned for a colour index.
ColourByte(colour_index) ==
    IF colour_index = 0 THEN 0
    ELSE IF colour_index = 1 THEN 0
    ELSE IF colour_index = 2 THEN 15
    ELSE 255

\* PPU::render_pixel's match on colour_index, followed by output.emit.
EmitColour(p, colour_index) ==
    IF colour_index > 3
    THEN [p EXCEPT !.panic = "colour_index"]
    ELSE [p EXCEPT !.pixels = p.pixels + 1, !.pixel = ColourByte(colour_index),
                   !.colour_index = colour_index]

\* A render cycle that emits on the dummy scanline as well.
EmitPixel_OnEveryLine(p) == EmitColour(p, ColourIndex(p))

\* PPU::tick_render_cycle: the pixel is rendered and emitted, unless this is
\* the dummy scanline 261.
EmitPixel(p) == IF p.scanline # 261 THEN EmitColour(p, ColourIndex(p)) ELSE p

\* PPU::tick_render_cycle: the registers are reloaded on cycles 1, 9, 17, ...
ReloadIfDue(p) == IF p.cycle % 8 = 1 THEN ReloadShiftRegisters(p) ELSE p

\* PPU::tick_render_cycle: finally all the registers are shifted (the panic
\* of render_pixel ends the tick before).
ShiftUnlessPanicked(p) == IF p.panic # "none" THEN p ELSE ShiftRegisters(p)

\* PPU::tick_render_cycle.
TickRenderCycle(p) == ShiftUnlessPanicked(EmitPixel(FetchTileData(ReloadIfDue(p))))

\* PPU::tick_sprite_fetch_cycle.
TickSpriteFetchCycle(p) == p

\* PPU::tick_prefetch_tiles_cycle.
TickPrefetchTilesCycle(p) == FetchTileData(p)

\* PPU::tick_unknown_fetch.
TickUnknownFetch(p) ==
    [p EXCEPT !.tmp_pattern_coords = MemoryRead(TileAddress(p)),
              !.fetch = "nametable"]

\* PPU::tick_idle_cycle.
TickIdleCycle(p) == p

\* PPU::handle_scrolling, dot 256: the y position is incremented.
ScrollY(p, v) == IF p.cycle = 256 THEN IncrementY(v) ELSE v

\* PPU::handle_scrolling, dot 257: the horizontal bits of t are copied to v.
ScrollCopyHorizontal(p, v) ==
    IF p.cycle = 257
    THEN BitOr(BitAnd(v, Not16(1055)), BitAnd(p.t, 1055))
    ELSE v

\* PPU::handle_scrolling, dots 280 to 304 of the pre-render scanline: the
\* vertical bits of t are copied to v.
ScrollCopyVertical(p, v) ==
    IF p.scanline = 261 /\ p.cycle >= 280 /\ p.cycle <= 304
    THEN BitOr(BitAnd(v, Not16(31712)), BitAnd(p.t, 31712))
    ELSE v

\* PPU::handle_scrolling, dots 8, 16, ..., 256, 328 and 336: coarse x is
\* incremented.
ScrollCoarseX(p, v) ==
    IF ((p.cycle > 0 /\ p.cycle <= 256) \/ p.cycle >= 328) /\ p.cycle % 8 = 0
    THEN IncrementCoarseX(v)
    ELSE v

\* PPU::handle_scrolling.
HandleScrolling(p) ==
    IF ~RenderingIsEnabled(p)
    THEN p
    ELSE [p EXCEPT !.v = ScrollCoarseX(p, ScrollCopyVertical(p,
                             ScrollCopyHorizontal(p, ScrollY(p, p.v))))]

\* PPU::tick_render_scanline, dot 1 of the pre-render line:
\* self.ppustatus &= 0b0111_1111.
PreRenderClear(status) == BitAnd(status, 127)

\* PPU::tick_vblank_scanline, dot 1 of line 241: self.ppustatus |= 0b1000_0000.
VBlankSet(status) == BitOr(status, 128)

\* PPU::tick_render_scanline, the match on the cycle.
TickRenderStage(p) ==
    IF p.cycle = 0 THEN TickIdleCycle(p)
    ELSE IF p.cycle <= 256 THEN TickRenderCycle(p)
    ELSE IF p.cycle <= 320 THEN TickSpriteFetchCycle(p)
    ELSE IF p.cycle <= 336 THEN TickPrefetchTilesCycle(p)
    ELSE IF p.cycle <= 340 THEN TickUnknownFetch(p)
    ELSE [p EXCEPT !.panic = "render_cycle"]

\* PPU::tick_render_scanline, on dot 1 of the pre-render scanline: clear the
\* vblank flag.
ClearAtDot1(p) ==
    IF p.scanline = 261 /\ p.cycle = 1
    THEN [p EXCEPT !.ppustatus = PreRenderClear(p.ppustatus)]
    ELSE p

\* PPU::tick_render_scanline after the match: scrolling, then the clear (a
\* panic in the match ends the tick before).
ScrollAndClear(p) == IF p.panic # "none" THEN p ELSE ClearAtDot1(HandleScrolling(p))

\* PPU::tick_render_scanline: the PPU afterwards (1 cycle is returned).
TickRenderScanline(p) == ScrollAndClear(TickRenderStage(p))

\* PPU::tick_idle_scanline: the cycles returned.
IdleScanlineCycles == 341

\* A VBlank line that sets the flag one dot early.
TickVblankScanline_AtDot0(p) ==
    IF p.scanline = 241 /\ p.cycle = 0
    THEN [p EXCEPT !.ppustatus = VBlankSet(p.ppustatus)]
    ELSE p

\* PPU::tick_vblank_scanline: the PPU afterwards (1 cycle is returned).
TickVblankScanline(p) ==
    IF p.scanline = 241 /\ p.cycle = 1
    THEN [p EXCEPT !.ppustatus = VBlankSet(p.ppustatus)]
    ELSE p

\* PPU::tick, the match on the scanline: the PPU after the arm taken and the
\* cycles the arm returns.
TickScanline(p) ==
    IF p.scanline \in (0 .. 239) \cup {261}
    THEN [ppu |-> TickRenderScanline(p), cycles |-> 1]
    ELSE IF p.scanline = 240
    THEN [ppu |-> p, cycles |-> IdleScanlineCycles]
    ELSE IF p.scanline = 241
    THEN [ppu |-> TickVblankScanline(p), cycles |-> 1]
    ELSE [ppu |-> [p EXCEPT !.panic = "scanline"], cycles |-> 0]

\* A scanline counter that does not wrap.
NextScanline_NoWrap(scanline) == scanline + 1

\* PPU::tick: self.scanline = (self.scanline + 1) % 262.
NextScanline(scanline) == (scanline + 1) % 262

\* PPU::tick after the match: the cycles are added to self.cycle, which is
\* checked against 341 and wraps into the next scanline.  q is the PPU after
\* the arm taken; the result is the PPU afterwards and the cycles returned
\* (none when it panics).
AdvanceCycle(q, cycles) ==
    IF q.panic # "none"
    THEN [ppu |-> q, cycles |-> 0]
    ELSE IF q.cycle + cycles > 341
    THEN [ppu |-> [q EXCEPT !.cycle = q.cycle + cycles, !.panic = "cycle"],
          cycles |-> 0]
    ELSE IF q.cycle + cycles = 341
    THEN [ppu |-> [q EXCEPT !.cycle = 0, !.scanline = NextScanline(q.scanline)],
          cycles |-> cycles]
    ELSE [ppu |-> [q EXCEPT !.cycle = q.cycle + cycles], cycles |-> cycles]

\* The result of the arm handed on to the rest of PPU::tick.
AdvanceArm(arm) == AdvanceCycle(arm.ppu, arm.cycles)

\* PPU::tick: the PPU afterwards and the cycles returned.  The tick has read
\* nothing from memory yet when it begins.
PPUTickResult(p) == AdvanceArm(TickScanline([p EXCEPT !.fetch = "none"]))

\* A call of PPU::tick; a PPU that has panicked is not ticked again.
PPUTick ==
    /\ ppu.panic = "none"
    /\ \E result \in {PPUTickResult(ppu)} :
          /\ ppu' = result.ppu
          /\ ppu_dots' = ppu_dots + result.cycles
    /\ UNCHANGED <<clock_vars, machine_vars>>

\* A call of PPU::tile_address and of PPU::attribute_address.
PPUAddresses ==
    /\ ppu' = [ppu EXCEPT !.tile_address = TileAddress(ppu),
                          !.attribute_address = AttributeAddress(ppu)]
    /\ UNCHANGED <<ppu_dots, clock_vars, machine_vars>>

----------------------------------------------------------------------------
(* NES::tick's NMI glue. *)

\* NES::new: nmi_pin is false.  line is the level of the NMI line that the
\* last NES::tick sampled, nmis counts the calls of cpu.trigger_nmi(), edges
\* the samples that found the line asserted after a sample (or construction)
\* that did not, and high_run the samples in a row that found it asserted.
NESNew ==
    [nmi_pin |-> FALSE, line |-> FALSE, nmis |-> 0, edges |-> 0, high_run |-> 0]

\* NES::tick: whether cpu.trigger_nmi() is called, given nmi_pin and the
\* value of ppu.nmi_triggered().
TriggersNmi(pin, line) == line /\ pin = FALSE

\* nmi_pin that is never lowered.
NmiPinAfter_NeverLowered(pin, line) == IF line THEN TRUE ELSE pin

\* NES::tick: nmi_pin afterwards.
NmiPinAfter(pin, line) ==
    IF line
    THEN IF pin = FALSE THEN TRUE ELSE pin
    ELSE FALSE

\* NES::tick: the clock ticks one of its tickers, then the NMI line is
\* sampled.  The level the PPU shows after the clock tick is an input.
NESTick(running_secs, line) ==
    /\ ClockTick(running_secs)
    /\ nes' = [nmi_pin  |-> NmiPinAfter(nes.nmi_pin, line),
               line     |-> line,
               nmis     |-> IF TriggersNmi(nes.nmi_pin, line)
                            THEN nes.nmis + 1 ELSE nes.nmis,
               edges    |-> IF line /\ ~nes.line
                            THEN nes.edges + 1 ELSE nes.edges,
               high_run |-> IF line THEN nes.high_run + 1 ELSE 0]
    /\ UNCHANGED <<ppu_vars, dma, controller, apu, cpu>>

----------------------------------------------------------------------------
(* The OAM DMA controller. *)

\* The bytes the CPU stores to $4014 (0x00, 0x02, 0xFF), and -1 for a CPU tick
\* that stores nothing there.
Pages == {0, 2, 255}

NoStore == 0 - 1

\* The cycle counts a CPU tick returns.
CpuCycles == {2, 3}

\* cpu.load_memory(address): the image of the CPU's address space, here the
\* low byte of the address plus its page, so that every page differs.
CpuMemory(address) == ((address % 256) + (address \div 256)) % 256

\* The address store_memory is called with: $2004, OAMDATA.
OamData == 8196

\* DMAController::new, with io_registers zeroed.  register is the byte of
\* io_registers at $4014; overflow_checks tells a build that panics on
\* integer overflow from one that wraps; panic is set once tick has panicked.
\* The other fields keep what the ticks did: written is the byte of the last
\* CPU tick's store to $4014 (NoStore if it made none), copies the loads and
\* stores made since then, stall the cycles returned since then by ticks that
\* did not run the CPU, odd the parity of all cycles returned, odd_start that
\* parity when the last CPU tick ended, cpu_ticks the calls of cpu.tick(),
\* cpu_returned what the last of them returned, returned what the last
\* DMAController::tick returned and delegated whether it called cpu.tick().
\* NES::new moves the controller into the clock, so that trigger_dma has no
\* caller.
DMANew(checks) ==
    [copies_remaining |-> 0, base_address |-> 0, register |-> 0,
     overflow_checks |-> checks, panic |-> FALSE,
     written |-> NoStore, copies |-> <<>>, stall |-> 0,
     odd |-> FALSE, odd_start |-> FALSE,
     cpu_ticks |-> 0, cpu_returned |-> 0, returned |-> 0, delegated |-> FALSE]

\* DMAController::tick, lines 145-151: a non-zero byte at $4014 triggers.
DetectTrigger(d) ==
    IF d.register # 0
    THEN [d EXCEPT !.base_address = Shl16(d.register, 8),
                   !.copies_remaining = 256,
                   !.register = 0]
    ELSE d

\* A controller that never suspends the CPU.
Suspended_Never(d) == FALSE

\* DMAController::tick, line 153: the CPU is suspended during the copy.
Suspended(d) == d.copies_remaining > 0

\* self.base_address + 256 overflows a u16.
AddressOverflows(d) == d.base_address + 256 > 65535

\* self.base_address + 256 - self.copies_remaining in a build whose u16
\* arithmetic wraps, and in any build when nothing overflows.
CopyAddress(d) ==
    (((d.base_address + 256) % 65536) + 65536 - d.copies_remaining) % 65536

\* DMAController::tick, lines 155-158: one byte is loaded and stored to
\* $2004, and 2 is returned.
CopyByte(d, address) ==
    [d EXCEPT !.copies_remaining = d.copies_remaining - 1,
              !.copies = Append(d.copies, [from |-> address, to |-> OamData,
                                           byte |-> CpuMemory(address)]),
              !.stall = d.stall + 2,
              !.returned = 2,
              !.delegated = FALSE]

\* DMAController::tick, lines 153-158.
TickCopy(d) ==
    IF AddressOverflows(d) /\ d.overflow_checks
    THEN [d EXCEPT !.panic = TRUE]
    ELSE CopyByte(d, CopyAddress(d))

\* DMAController::tick, line 160: self.cpu.borrow_mut().tick().  The CPU
\* runs for cycles cycles and stores store to $4014, or nothing there when
\* store is NoStore.
TickCpu(d, cycles, store) ==
    [d EXCEPT !.register = IF store = NoStore THEN d.register ELSE store,
              !.written = store,
              !.copies = IF store = NoStore THEN d.copies ELSE <<>>,
              !.stall = 0,
              !.odd = (d.odd # (cycles % 2 = 1)),
              !.odd_start = (d.odd # (cycles % 2 = 1)),
              !.cpu_ticks = d.cpu_ticks + 1,
              !.cpu_returned = cycles,
              !.returned = cycles,
              !.delegated = TRUE]

\* DMAController::tick, after the trigger has been looked for.
TickAfterDetect(d, cycles, store) ==
    IF Suspended(d) THEN TickCopy(d) ELSE TickCpu(d, cycles, store)

\* DMAController::tick.
DMATickResult(d, cycles, store) == TickAfterDetect(DetectTrigger(d), cycles, store)

\* A call of DMAController::tick; a controller that has panicked is not
\* ticked again.  The inputs matter only to a tick that runs the CPU.
DMATick ==
    /\ dma.panic = FALSE
    /\ \/ /\ Suspended(DetectTrigger(dma))
          /\ dma' = DMATickResult(dma, 0, NoStore)
       \/ /\ ~Suspended(DetectTrigger(dma))
          /\ dma.cpu_ticks < MaxCpuTicks
          /\ \E cycles \in CpuCycles, store \in Pages \cup {NoStore} :
                dma' = DMATickResult(dma, cycles, store)
    /\ UNCHANGED <<clock_vars, ppu_vars, nes, controller, apu, cpu>>

----------------------------------------------------------------------------
(* The controller port. *)

Buttons == {"A", "B", "Select", "Start", "Up", "Down", "Left", "Right"}

\* Controller::STROBE_ORDER.
STROBE_ORDER == <<"A", "B", "Select", "Start", "Up", "Down", "Left", "Right">>

\* What keymap.get(&key) gives: a button, or None for a key that is not
\* mapped.
MappedButtons == Buttons \cup {"None"}

\* The bytes written to $4016.
StrobeBytes == {0, 1, 2, 3}

NotReleased == 0 - 1

\* Controller::new: no key state, strobe_ix and register zero.  The other
\* fields keep what the operations did:
\*   op         the last operation ("new", "event", "read", "write", "freeze",
\*              "hydrate");
\*   events     the key events handled;
\*   button, byte, prev_ix   the button the last read selected, the byte it
\*              returned and strobe_ix as the read found it;
\*   high_read  a read has been made since the last write that set the
\*              strobe bit;
\*   released   the reads made since a write last took the strobe bit from 1
\*              to 0, counted up to MaxReleasedReads, or NotReleased if there
\*              was none or the bit has been set again since;
\*   clean      that write followed the write that set the bit with no read
\*              in between;
\*   frozen, saved   freeze has been called, and the ControllerState it
\*              returned last;
\*   at_freeze  strobe_ix and register as they were then;
\*   changed    at the last hydrate, strobe_ix or register were not as
\*              at_freeze.
ControllerNew ==
    [keystate |-> [b \in {} |-> FALSE], strobe_ix |-> 0, register |-> 0,
     op |-> "new", events |-> 0,
     button |-> "None", byte |-> 0, prev_ix |-> 0,
     high_read |-> FALSE, released |-> NotReleased, clean |-> FALSE,
     frozen |-> FALSE,
     saved |-> [strobe_ix |-> 0, register |-> 0],
     at_freeze |-> [strobe_ix |-> 0, register |-> 0],
     changed |-> FALSE]

\* self.keystate.insert(button, down).
KeyStateInsert(keystate, button, down) ==
    [b \in (DOMAIN keystate) \cup {button} |->
        IF b = button THEN down ELSE keystate[b]]

\* Controller::handle_event: KeyDown(key) when down, KeyUp(key) otherwise,
\* with button what the keymap holds for key.
HandleEvent(c, button, down) ==
    [c EXCEPT !.keystate = IF button = "None" THEN c.keystate
                           ELSE KeyStateInsert(c.keystate, button, down),
              !.op = "event",
              !.events = c.events + 1]

\* *self.keystate.get(&button).unwrap_or(&false).
IsPressed(c, button) ==
    IF button \in DOMAIN c.keystate THEN c.keystate[button] ELSE FALSE

\* A read that does not look at the strobe bit.
SelectedIx_NoReset(c) == c.strobe_ix

\* Controller::read, lines 72-74: the index the read uses.
SelectedIx(c) == IF BitAnd(c.register, 1) # 0 THEN 0 ELSE c.strobe_ix

\* Controller::read, lines 75-77 and 80: the byte returned when ix is the
\* index used.
ReadByte(c, ix) == IF IsPressed(c, STROBE_ORDER[ix + 1]) THEN 1 ELSE 0

\* Controller::read, lines 78-79.
NextStrobeIx(ix) == (ix + 1) % 8

\* One more read since the release, if there was one.
CountRead(released) ==
    IF released = NotReleased \/ released = MaxReleasedReads
    THEN released ELSE released + 1

\* Controller::read with ix the index used.
ReadAt(c, ix) ==
    [c EXCEPT !.strobe_ix = NextStrobeIx(ix),
              !.op = "read",
              !.button = STROBE_ORDER[ix + 1],
              !.byte = ReadByte(c, ix),
              !.prev_ix = c.strobe_ix,
              !.high_read = (c.high_read \/ BitAnd(c.register, 1) # 0),
              !.released = CountRead(c.released)]

\* Controller::read.
Read(c) == ReadAt(c, SelectedIx(c))

\* Controller::write with bit the bit 0 of the byte written.
WriteBit(c, bit) ==
    [c EXCEPT !.register = bit,
              !.op = "write",
              !.high_read = IF bit = 1 THEN FALSE ELSE c.high_read,
              !.released = IF bit = 1 THEN NotReleased
                           ELSE IF c.register = 1 THEN 0 ELSE c.released,
              !.clean = IF bit = 1 THEN FALSE
                        ELSE IF c.register = 1 THEN ~c.high_read ELSE c.clean]

\* Controller::write.
Write(c, byte) == WriteBit(c, BitAnd(byte, 1))

\* A freeze that leaves the strobe index out.
FreezeState_NoIndex(c) == [strobe_ix |-> 0, register |-> c.register]

\* Controller::freeze: the ControllerState returned.
FreezeState(c) == [strobe_ix |-> c.strobe_ix, register |-> c.register]

\* Controller::freeze.
Freeze(c) ==
    [c EXCEPT !.op = "freeze",
              !.frozen = TRUE,
              !.saved = FreezeState(c),
              !.at_freeze = [strobe_ix |-> c.strobe_ix, register |-> c.register]]

\* Controller::hydrate.  Nothing is known afterwards of the strobe writes
\* that led to the state restored.
Hydrate(c, state) ==
    [c EXCEPT !.strobe_ix = state.strobe_ix,
              !.register = state.register,
              !.op = "hydrate",
              !.high_read = FALSE,
              !.released = NotReleased,
              !.clean = FALSE,
              !.changed = (c.strobe_ix # c.at_freeze.strobe_ix
                              \/ c.register # c.at_freeze.register)]

ControllerKeyEvent ==
    /\ controller.events < MaxKeyEvents
    /\ \E button \in MappedButtons, down \in BOOLEAN :
          controller' = HandleEvent(controller, button, down)
    /\ UNCHANGED <<clock_vars, ppu_vars, nes, dma, apu, cpu>>

ControllerRead ==
    /\ controller' = Read(controller)
    /\ UNCHANGED <<clock_vars, ppu_vars, nes, dma, apu, cpu>>

ControllerWrite ==
    /\ \E byte \in StrobeBytes : controller' = Write(controller, byte)
    /\ UNCHANGED <<clock_vars, ppu_vars, nes, dma, apu, cpu>>

ControllerFreeze ==
    /\ controller' = Freeze(controller)
    /\ UNCHANGED <<clock_vars, ppu_vars, nes, dma, apu, cpu>>

\* The state hydrated is the one the last freeze returned.
ControllerHydrate ==
    /\ controller.frozen
    /\ controller' = Hydrate(controller, controller.saved)
    /\ UNCHANGED <<clock_vars, ppu_vars, nes, dma, apu, cpu>>

----------------------------------------------------------------------------
(* The APU's frame sequencer and length counters. *)

\* The bytes written to $4017: each combination of bit 7 (mode) and bit 6
\* (IRQ inhibit).
ModeBytes == {0, 64, 128, 192}

\* LENGTH_COUNTER_LOOKUP.
LENGTH_COUNTER_LOOKUP ==
    <<10, 254, 20,  2, 40,  4, 80,  6, 160,  8, 60, 10, 14, 12, 26, 14,
      12, 16, 24, 18, 48, 20, 96, 22, 192, 24, 72, 26, 16, 28, 32, 30>>

\* The addresses whose write loads a length counter: $4003, $4007, $400B and
\* $400F.
LengthAddresses == {16387, 16391, 16395, 16399}

\* The bytes written there.
LengthBytes == 0 .. 255

\* The bytes written to the registers of the pulse channels, $4001 to $4003
\* and $4005 to $4007.
PulseAddresses == {16385, 16386, 16387, 16389, 16390, 16391}

PulseBytes == {0, 7, 171, 255}

\* The bytes written to $4015 and the bytes that load a length counter in
\* between reads of $4015.
EnableBytes == {0, 5, 10, 15}

StatusLengthBytes == {8}

\* No write has handed a byte to the sweep unit of a pulse.
NoSweep == 0 - 1

\* APU::new: four-step mode, the counter at zero, no frame IRQ; the length
\* counters and the periods of the channels start at zero and the DMC's IRQ
\* flag is clear.  pulse_1_sweep and pulse_2_sweep are the byte that a write
\* has handed to the sweep unit of the pulse, NoSweep while none has.  The
\* enabled flags of the channels, which nothing in APU reads, are left out.
\* The other fields keep what the
\* operations did: op is the last operation ("new", "tick", "write4017",
\* "write_length", "write_pulse", "write4015", "read", "dmc"), status the
\* byte that the last read of $4015 returned,
\* step the value of the incremented cycle counter that the last tick matched
\* on, quarter and half whether the last operation called
\* clock_linear_and_envelope and clock_length_counters, inhibit bit 6 of the
\* byte last written to $4017, address and byte the last write of a length
\* counter and writes the number of such writes.
APUNew ==
    [sequence_mode |-> "FourStep", cycle_counter |-> 0, irq_flag |-> FALSE,
     pulse_1_length |-> 0, pulse_2_length |-> 0,
     triangle_length |-> 0, noise_length |-> 0,
     pulse_1_period |-> 0, pulse_2_period |-> 0,
     pulse_1_sweep |-> NoSweep, pulse_2_sweep |-> NoSweep,
     dmc_irq_flag |-> FALSE, status |-> 0,
     op |-> "new", step |-> 0, quarter |-> FALSE, half |-> FALSE,
     inhibit |-> FALSE, address |-> 0, byte |-> 0, writes |-> 0]

\* APU::tick: the cycle counter is counter, and the arm matched calls
\* clock_linear_and_envelope if quarter and clock_length_counters if half.
Clocked(a, counter, quarter, half) ==
    [a EXCEPT !.cycle_counter = counter,
              !.op = "tick", !.step = counter,
              !.quarter = quarter, !.half = half]

\* APU::tick, the last arm of either mode: the counter wraps.
Wrapped(a) == [a EXCEPT !.cycle_counter = 0]

\* A four-step sequence whose last step clocks the length counters only.
TickFourStep_NoQuarterAtEnd(a, counter) ==
    IF counter = 3729 THEN Clocked(a, counter, TRUE, FALSE)
    ELSE IF counter = 7457 THEN Clocked(a, counter, TRUE, TRUE)
    ELSE IF counter = 11186 THEN Clocked(a, counter, TRUE, FALSE)
    ELSE IF counter = 14915
    THEN [Wrapped(Clocked(a, counter, FALSE, TRUE)) EXCEPT !.irq_flag = TRUE]
    ELSE Clocked(a, counter, FALSE, FALSE)

\* APU::tick, lines 87-101: the four-step sequence at counter.
TickFourStep(a, counter) ==
    IF counter = 3729 THEN Clocked(a, counter, TRUE, FALSE)
    ELSE IF counter = 7457 THEN Clocked(a, counter, TRUE, TRUE)
    ELSE IF counter = 11186 THEN Clocked(a, counter, TRUE, FALSE)
    ELSE IF counter = 14915
    THEN [Wrapped(Clocked(a, counter, TRUE, TRUE)) EXCEPT !.irq_flag = TRUE]
    ELSE Clocked(a, counter, FALSE, FALSE)

\* APU::tick, lines 102-115: the five-step sequence at counter.
TickFiveStep(a, counter) ==
    IF counter = 3729 THEN Clocked(a, counter, TRUE, FALSE)
    ELSE IF counter = 7457 THEN Clocked(a, counter, TRUE, TRUE)
    ELSE IF counter = 11186 THEN Clocked(a, counter, TRUE, FALSE)
    ELSE IF counter = 18641 THEN Wrapped(Clocked(a, counter, TRUE, TRUE))
    ELSE Clocked(a, counter, FALSE, FALSE)

\* APU::tick, lines 85-116, with counter the incremented cycle counter.
TickSequencer(a, counter) ==
    IF a.sequence_mode = "FourStep"
    THEN TickFourStep(a, counter)
    ELSE TickFiveStep(a, counter)

\* APU::tick: the frame sequencer afterwards.
APUTickResult(a) == TickSequencer(a, a.cycle_counter + 1)

\* APU::write to $4017.
APUWriteMode(a, byte) ==
    [a EXCEPT !.sequence_mode = IF BitAnd(byte, 128) = 0
                                THEN "FourStep" ELSE "FiveStep",
              !.op = "write4017", !.quarter = FALSE, !.half = FALSE,
              !.inhibit = (BitAnd(byte, 64) # 0)]

\* APU::read of $4015, the status byte: bits 0 to 3 for the length counters
\* that are not zero, bit 5 for the DMC's IRQ flag, bit 6 for the frame IRQ
\* flag.
StatusByte(a) ==
    (IF a.pulse_1_length # 0 THEN 1 ELSE 0)
      + (IF a.pulse_2_length # 0 THEN 2 ELSE 0)
      + (IF a.triangle_length # 0 THEN 4 ELSE 0)
      + (IF a.noise_length # 0 THEN 8 ELSE 0)
      + (IF a.dmc_irq_flag THEN 32 ELSE 0)
      + (IF a.irq_flag THEN 64 ELSE 0)

\* A read of $4015 that leaves the frame IRQ flag as it is.
APUReadStatus_KeepsFlag(a) ==
    [a EXCEPT !.status = StatusByte(a),
              !.op = "read", !.quarter = FALSE, !.half = FALSE]

\* APU::read of $4015: the status byte is returned and the frame IRQ flag is
\* cleared.
APUReadStatus(a) ==
    [a EXCEPT !.status = StatusByte(a),
              !.irq_flag = FALSE,
              !.op = "read", !.quarter = FALSE, !.half = FALSE]

\* APU::write to $4015: the length counter of each channel whose bit is clear
\* is set to zero.
APUWriteEnable(a, byte) ==
    [a EXCEPT !.pulse_1_length =
                  IF BitAnd(byte, 1) # 0 THEN a.pulse_1_length ELSE 0,
              !.pulse_2_length =
                  IF BitAnd(Shr(byte, 1), 1) # 0 THEN a.pulse_2_length ELSE 0,
              !.triangle_length =
                  IF BitAnd(Shr(byte, 2), 1) # 0 THEN a.triangle_length ELSE 0,
              !.noise_length =
                  IF BitAnd(Shr(byte, 3), 1) # 0 THEN a.noise_length ELSE 0,
              !.op = "write4015", !.quarter = FALSE, !.half = FALSE]

\* DMC::clock at the end of a sample that does not loop, with the IRQ
\* enabled: the DMC's IRQ flag is raised.
DMCEndOfSample(a) ==
    [a EXCEPT !.dmc_irq_flag = TRUE,
              !.op = "dmc", !.quarter = FALSE, !.half = FALSE]

\* APU::irq_triggered.
IrqTriggered(a) == a.irq_flag \/ a.dmc_irq_flag

\* An index that keeps the low bits of the byte.
LengthIndex_LowBits(byte) == BitAnd(byte, 31)

\* APU::write, $4003, $4007, $400B and $400F: (byte >> 3) as usize.
LengthIndex(byte) == Shr(byte, 3)

\* LENGTH_COUNTER_LOOKUP[(byte >> 3) as usize].
LengthFor(byte) == LENGTH_COUNTER_LOOKUP[LengthIndex(byte) + 1]

\* APU::write to $4003 or $4007, the period: its bits 8 to 10 are replaced by
\* the low three bits of the byte.
PeriodHigh(period, byte) ==
    BitOr(BitAnd(period, 255), Shl16(BitAnd(byte, 7), 8))

\* APU::write to $4002 or $4006, the period: its low eight bits are replaced
\* by the byte.
PeriodLow(period, byte) == BitOr(BitAnd(period, 65280), byte)

\* APU::write to $4003, $4007, $400B or $400F, as far as the length counters
\* and the periods of the pulses go.
APUWriteLength(a, address, byte) ==
    [a EXCEPT !.pulse_1_period =
                  IF address = 16387 THEN PeriodHigh(a.pulse_1_period, byte)
                  ELSE a.pulse_1_period,
              !.pulse_2_period =
                  IF address = 16391 THEN PeriodHigh(a.pulse_2_period, byte)
                  ELSE a.pulse_2_period,
              !.pulse_1_length =
                  IF address = 16387 THEN LengthFor(byte) ELSE a.pulse_1_length,
              !.pulse_2_length =
                  IF address = 16391 THEN LengthFor(byte) ELSE a.pulse_2_length,
              !.triangle_length =
                  IF address = 16395 THEN LengthFor(byte) ELSE a.triangle_length,
              !.noise_length =
                  IF address = 16399 THEN LengthFor(byte) ELSE a.noise_length,
              !.op = "write_length", !.quarter = FALSE, !.half = FALSE,
              !.address = address, !.byte = byte,
              !.writes = a.writes + 1]

\* APU::write to $4001, $4002, $4005 or $4006: the arm of $4001 is empty, the
\* arm of $4002 sets the low byte of pulse 1's period, $4005 has no arm of its
\* own and takes the last, empty one, and the arm of $4006 sets the low byte
\* of pulse 2's period.
APUWritePeriod(a, address, byte) ==
    [a EXCEPT !.pulse_1_period =
                  IF address = 16386 THEN PeriodLow(a.pulse_1_period, byte)
                  ELSE a.pulse_1_period,
              !.pulse_2_period =
                  IF address = 16390 THEN PeriodLow(a.pulse_2_period, byte)
                  ELSE a.pulse_2_period,
              !.op = "write_pulse", !.quarter = FALSE, !.half = FALSE,
              !.address = address, !.byte = byte,
              !.writes = a.writes + 1]

\* APU::write to a register of a pulse channel.
APUWritePulse(a, address, byte) ==
    IF address = 16387 \/ address = 16391
    THEN APUWriteLength(a, address, byte)
    ELSE APUWritePeriod(a, address, byte)

APUTick ==
    /\ apu.cycle_counter < MaxCycleCounter
    /\ apu' = APUTickResult(apu)
    /\ UNCHANGED <<clock_vars, ppu_vars, nes, dma, controller, cpu>>

APUWrite ==
    /\ \E byte \in ModeBytes : apu' = APUWriteMode(apu, byte)
    /\ UNCHANGED <<clock_vars, ppu_vars, nes, dma, controller, cpu>>

APURead ==
    /\ apu' = APUReadStatus(apu)
    /\ UNCHANGED <<clock_vars, ppu_vars, nes, dma, controller, cpu>>

APULengthWrite ==
    /\ apu.writes < MaxLengthWrites
    /\ \E address \in LengthAddresses, byte \in LengthBytes :
          apu' = APUWriteLength(apu, address, byte)
    /\ UNCHANGED <<clock_vars, ppu_vars, nes, dma, controller, cpu>>

APUPulseWrite ==
    /\ apu.writes < MaxPulseWrites
    /\ \E address \in PulseAddresses, byte \in PulseBytes :
          apu' = APUWritePulse(apu, address, byte)
    /\ UNCHANGED <<clock_vars, ppu_vars, nes, dma, controller, cpu>>

\* APU::tick shortly before and after the four-step sequence ends.
APUStatusTick ==
    /\ \/ /\ apu.cycle_counter >= 14915 - MaxStatusTicks
          /\ apu.cycle_counter < 14915 + MaxStatusTicks
       \/ apu.cycle_counter < MaxStatusTicks
    /\ apu' = APUTickResult(apu)
    /\ UNCHANGED <<clock_vars, ppu_vars, nes, dma, controller, cpu>>

APUStatusLengthWrite ==
    /\ apu.writes < MaxStatusWrites
    /\ \E address \in LengthAddresses, byte \in StatusLengthBytes :
          apu' = APUWriteLength(apu, address, byte)
    /\ UNCHANGED <<clock_vars, ppu_vars, nes, dma, controller, cpu>>

APUEnableWrite ==
    /\ \E byte \in EnableBytes : apu' = APUWriteEnable(apu, byte)
    /\ UNCHANGED <<clock_vars, ppu_vars, nes, dma, controller, cpu>>

APUDmcIrq ==
    /\ apu' = DMCEndOfSample(apu)
    /\ UNCHANGED <<clock_vars, ppu_vars, nes, dma, controller, cpu>>

----------------------------------------------------------------------------
(* The CPU and its RAM. *)

\* memory::new: 65536 bytes, all 0. The array is kept as a function on the
\* addresses that have been stored to; every other address holds 0.
RamNew == [address \in {} |-> 0]

\* RAM::load.
RamLoad(memory, address) ==
    IF address \in DOMAIN memory THEN memory[address] ELSE 0

RamStore_OnlyOverZero(memory, address, byte) ==
    IF RamLoad(memory, address) # 0 THEN memory
    ELSE [x \in DOMAIN memory \cup {address} |->
            IF x = address THEN byte ELSE memory[x]]

\* RAM::store.
RamStore(memory, address, byte) ==
    [x \in DOMAIN memory \cup {address} |->
        IF x = address THEN byte ELSE memory[x]]

\* The tests' load_data: bytes stored from address on.
RECURSIVE LoadData(_, _, _)
LoadData(memory, address, bytes) ==
    IF bytes = <<>> THEN memory
    ELSE LoadData(RamStore(memory, address, Head(bytes)),
                  (address + 1) % 65536, Tail(bytes))

\* flags::new: the Z and N flags of ProcessorFlags, both clear.
FlagsNew == [z |-> FALSE, n |-> FALSE]

\* Z from the byte being zero, N from its bit 7.
SetZeroNegative(p, byte) == [p EXCEPT !.z = (byte = 0), !.n = (byte >= 128)]

\* A program with nothing in it.
NoProgram ==
    [kind |-> "none", bytes |-> <<>>, x |-> 0, y |-> 0, address |-> 0,
     data |-> 0, byte |-> 0, target |-> "none", mode |-> "none", crossed |-> FALSE]

\* cpu::new. Besides the CPU's fields the record keeps what the claims speak
\* of:
\*   panic      decode_instruction has panicked
\*   opcode     the opcode byte of the last instruction fetched
\*   returned   what the last execute_next_instruction returned
\*   cycles     the sum of what execute_next_instruction has returned
\*   steps      how many instructions have been fetched
\*   before     memory as it was before the last instruction
\*   program    the program and the data the CPU was started on
CPUNew ==
    [memory |-> RamNew, a |-> 0, x |-> 0, y |-> 0, sp |-> 0, pc |-> 0,
     p |-> FlagsNew, panic |-> FALSE, opcode |-> 0, returned |-> 0,
     cycles |-> 0, steps |-> 0, before |-> RamNew, program |-> NoProgram]

\* The byte after the opcode.
Operand8(c) == RamLoad(c.memory, c.pc)

\* The two bytes after the opcode, low byte first.
Operand16(c) ==
    RamLoad(c.memory, c.pc) + 256 * RamLoad(c.memory, (c.pc + 1) % 65536)

\* The address held in the zero page at zp and zp + 1.
Pointer(c, zp) ==
    RamLoad(c.memory, zp) + 256 * RamLoad(c.memory, (zp + 1) % 256)

\* The address an addressing mode reads or writes; pc stands after the
\* opcode.
Address(c, mode) ==
    CASE mode = "immediate" -> c.pc
      [] mode = "zero_page" -> Operand8(c)
      [] mode = "zero_page_indexed" -> (Operand8(c) + c.x) % 256
      [] mode = "zero_page_indexed_y" -> (Operand8(c) + c.y) % 256
      [] mode = "absolute" -> Operand16(c)
      [] mode = "absolute_indexed_x" -> (Operand16(c) + c.x) % 65536
      [] mode = "absolute_indexed_y" -> (Operand16(c) + c.y) % 65536
      [] mode = "indexed_indirect" -> Pointer(c, (Operand8(c) + c.x) % 256)
      [] mode = "indirect_indexed" -> (Pointer(c, Operand8(c)) + c.y) % 65536

\* The address an indexed mode adds its index register to.
BaseAddress(c, mode) ==
    IF mode = "indirect_indexed" THEN Pointer(c, Operand8(c))
    ELSE Operand16(c)

\* Whether the indexed address lies in another page than its base.
PageCrossed(c, mode) ==
    /\ mode \in {"absolute_indexed_x", "absolute_indexed_y", "indirect_indexed"}
    /\ BaseAddress(c, mode) \div 256 # Address(c, mode) \div 256

\* How many operand bytes follow the opcode.
OperandLength(mode) ==
    IF mode \in {"absolute", "absolute_indexed_x", "absolute_indexed_y"}
    THEN 2 ELSE 1

\* The cycles an addressing mode takes after the opcode fetch.
ModeCycles(mode) ==
    CASE mode = "immediate" -> 1
      [] mode = "zero_page" -> 2
      [] mode \in {"zero_page_indexed", "zero_page_indexed_y", "absolute",
                   "absolute_indexed_x", "absolute_indexed_y"} -> 3
      [] mode = "indirect_indexed" -> 4
      [] mode = "indexed_indirect" -> 5

\* The cycles of a read through the addressing mode: one more when the
\* indexed address crosses a page.
ReadCycles(c, mode) ==
    ModeCycles(mode) + (IF PageCrossed(c, mode) THEN 1 ELSE 0)

\* pc moved past the operand bytes.
PastOperand(c, mode) == (c.pc + OperandLength(mode)) % 65536

\* instructions::lda, ldx, ldy: the byte at the mode's address goes to the
\* target register and sets Z and N.
Load(c, target, mode, byte) ==
    [c EXCEPT !.a = IF target = "a" THEN byte ELSE c.a,
              !.x = IF target = "x" THEN byte ELSE c.x,
              !.y = IF target = "y" THEN byte ELSE c.y,
              !.p = SetZeroNegative(c.p, byte),
              !.pc = PastOperand(c, mode),
              !.returned = ReadCycles(c, mode)]

\* instructions::sta: the accumulator goes to the mode's address through
\* CPU::store_memory.
Sta(c, mode) ==
    [c EXCEPT !.memory = RamStore(c.memory, Address(c, mode), c.a),
              !.pc = PastOperand(c, mode),
              !.returned = ModeCycles(mode)]

DecodeInstruction_B9ByX(opcode) ==
    CASE opcode = 169 -> [operation |-> "lda", mode |-> "immediate"]
      [] opcode = 165 -> [operation |-> "lda", mode |-> "zero_page"]
      [] opcode = 181 -> [operation |-> "lda", mode |-> "zero_page_indexed"]
      [] opcode = 173 -> [operation |-> "lda", mode |-> "absolute"]
      [] opcode = 189 -> [operation |-> "lda", mode |-> "absolute_indexed_x"]
      [] opcode = 185 -> [operation |-> "lda", mode |-> "absolute_indexed_x"]
      [] opcode = 161 -> [operation |-> "lda", mode |-> "indexed_indirect"]
      [] opcode = 177 -> [operation |-> "lda", mode |-> "indirect_indexed"]
      [] opcode = 133 -> [operation |-> "sta", mode |-> "zero_page"]
      [] opcode = 149 -> [operation |-> "sta", mode |-> "zero_page_indexed"]
      [] opcode = 141 -> [operation |-> "sta", mode |-> "absolute"]
      [] OTHER -> [operation |-> "panic", mode |-> "none"]

\* CPU::decode_instruction of simul::cpu.
DecodeInstruction(opcode) ==
    CASE opcode = 169 -> [operation |-> "lda", mode |-> "immediate"]
      [] opcode = 165 -> [operation |-> "lda", mode |-> "zero_page"]
      [] opcode = 181 -> [operation |-> "lda", mode |-> "zero_page_indexed"]
      [] opcode = 173 -> [operation |-> "lda", mode |-> "absolute"]
      [] opcode = 189 -> [operation |-> "lda", mode |-> "absolute_indexed_x"]
      [] opcode = 185 -> [operation |-> "lda", mode |-> "absolute_indexed_y"]
      [] opcode = 161 -> [operation |-> "lda", mode |-> "indexed_indirect"]
      [] opcode = 177 -> [operation |-> "lda", mode |-> "indirect_indexed"]
      [] opcode = 133 -> [operation |-> "sta", mode |-> "zero_page"]
      [] opcode = 149 -> [operation |-> "sta", mode |-> "zero_page_indexed"]
      [] opcode = 141 -> [operation |-> "sta", mode |-> "absolute"]
      [] OTHER -> [operation |-> "panic", mode |-> "none"]

\* The decoder with the LDX and LDY opcodes that emulator::cpu's tests run.
Decode(opcode) ==
    CASE opcode = 162 -> [operation |-> "ldx", mode |-> "immediate"]
      [] opcode = 166 -> [operation |-> "ldx", mode |-> "zero_page"]
      [] opcode = 182 -> [operation |-> "ldx", mode |-> "zero_page_indexed_y"]
      [] opcode = 174 -> [operation |-> "ldx", mode |-> "absolute"]
      [] opcode = 190 -> [operation |-> "ldx", mode |-> "absolute_indexed_y"]
      [] opcode = 160 -> [operation |-> "ldy", mode |-> "immediate"]
      [] opcode = 164 -> [operation |-> "ldy", mode |-> "zero_page"]
      [] opcode = 180 -> [operation |-> "ldy", mode |-> "zero_page_indexed"]
      [] opcode = 172 -> [operation |-> "ldy", mode |-> "absolute"]
      [] opcode = 188 -> [operation |-> "ldy", mode |-> "absolute_indexed_x"]
      [] OTHER -> DecodeInstruction(opcode)

\* operation(self, addressing_mode).
Operate(c, operation, mode) ==
    CASE operation = "lda" ->
            Load(c, "a", mode, RamLoad(c.memory, Address(c, mode)))
      [] operation = "ldx" ->
            Load(c, "x", mode, RamLoad(c.memory, Address(c, mode)))
      [] operation = "ldy" ->
            Load(c, "y", mode, RamLoad(c.memory, Address(c, mode)))
      [] operation = "sta" -> Sta(c, mode)

ExecuteCycles_NoFetch(op_cycles) == op_cycles + 0

\* op_cycles + 1: one more for loading the opcode itself.
ExecuteCycles(op_cycles) == op_cycles + 1

\* The opcode fetch of execute_next_instruction: the load at pc, and pc += 1.
\* The programs here end far below 0xFFFF, so the increment never overflows.
Fetch(c) ==
    [c EXCEPT !.opcode = RamLoad(c.memory, c.pc),
              !.pc = c.pc + 1,
              !.steps = c.steps + 1,
              !.before = c.memory]

\* What execute_next_instruction returns, added to the sum.
Returning(c) ==
    [c EXCEPT !.returned = ExecuteCycles(c.returned),
              !.cycles = c.cycles + ExecuteCycles(c.returned)]

\* The operation decoded and run, or decode_instruction's panic.
Execute(c, decoded) ==
    IF decoded.operation = "panic" THEN [c EXCEPT !.panic = TRUE]
    ELSE Returning(Operate(c, decoded.operation, decoded.mode))

\* CPU::execute_next_instruction.
ExecuteNextInstruction(c) == Execute(Fetch(c), Decode(RamLoad(c.memory, c.pc)))

\* The CPU the tests start: the program's bytes from address 0 on, where
\* pc stands, its data byte at its address, and the index registers set.
CPUStart(program) ==
    [CPUNew EXCEPT
        !.memory = LoadData(RamStore(RamNew, program.address, program.data),
                            0, program.bytes),
        !.x = program.x,
        !.y = program.y,
        !.program = program]

\* run_program's step: the next instruction, while pc is inside the program.
CPUStep ==
    /\ ~cpu.panic
    /\ cpu.pc < Len(cpu.program.bytes)
    /\ cpu' = ExecuteNextInstruction(cpu)
    /\ UNCHANGED <<clock_vars, ppu_vars, nes, dma, controller, apu>>

----------------------------------------------------------------------------
(* The machine as constructed. *)

\* NES::new and the construction of its parts, in a build that wraps on
\* integer overflow.
MachineNew ==
    /\ nes = NESNew
    /\ dma = DMANew(FALSE)
    /\ controller = ControllerNew
    /\ apu = APUNew
    /\ cpu = CPUNew

----------------------------------------------------------------------------
(* The PPU ticked from construction. *)

InitPPU ==
    /\ ClockNew
    /\ ppu = PPUNew
    /\ ppu_dots = 0
    /\ MachineNew

NextPPU == PPUTick

SpecPPU == InitPPU /\ [][NextPPU]_vars

----------------------------------------------------------------------------
(* The PPU ticked from the start of the pre-render line, whatever the three *)
(* flags of PPUSTATUS were when the line began.                             *)

\* PPUSTATUS with each combination of VBlank (bit 7), sprite-0-hit (bit 6) and
\* sprite-overflow (bit 5).
StatusInputs == {32 * k : k \in 0 .. 7}

InitPPUStatus ==
    /\ ClockNew
    /\ \E status \in StatusInputs : ppu = [PPUNew EXCEPT !.ppustatus = status]
    /\ ppu_dots = 0
    /\ MachineNew

NextPPUStatus == PPUTick

SpecPPUStatus == InitPPUStatus /\ [][NextPPUStatus]_vars

----------------------------------------------------------------------------
(* The clock under any interleaving of manage and tick. *)

Init ==
    /\ ClockNew
    /\ ppu = PPUNew
    /\ ppu_dots = 0
    /\ MachineNew

Manage ==
    /\ Len(tickers) < MaxTickers
    /\ \E factor \in Factors : ClockManage(factor)
    /\ UNCHANGED <<ppu_vars, machine_vars>>

Tick ==
    /\ num_ticks < MaxTicks
    /\ \E running_secs \in elapsed_seconds .. MaxSeconds : ClockTick(running_secs)
    /\ UNCHANGED <<ppu_vars, machine_vars>>

Next == Manage \/ Tick

Spec == Init /\ [][Next]_vars

----------------------------------------------------------------------------
(* Two unit-cost tickers whose factors are as 1 to 3, managed before the    *)
(* first tick: test_scaled_ticker's clock, and NES::new's (PPU 4, CPU 12).  *)

\* The factor pairs (first managed, second managed).
ScaledPairs ==
    {<<1, 3>>, <<3, 1>>,
     <<NES_CPU_CLOCK_FACTOR, NES_PPU_CLOCK_FACTOR>>,
     <<NES_PPU_CLOCK_FACTOR, NES_CPU_CLOCK_FACTOR>>}

InitScaled ==
    /\ \E pair \in ScaledPairs :
          /\ tickers = ManagedTickers(ManagedTickers(<<>>, pair[1]), pair[2])
          /\ turn_order = ManagedTurnOrder(ManagedTurnOrder(<<>>, 1, 0), 2, 0)
    /\ num_ticks = 0
    /\ elapsed_cycles = 0
    /\ elapsed_seconds = 0
    /\ cycles_this_second = 0
    /\ ppu = PPUNew
    /\ ppu_dots = 0
    /\ MachineNew

ScaledTick ==
    /\ num_ticks < MaxScaledTicks
    /\ \E running_secs \in elapsed_seconds .. MaxSeconds : ClockTick(running_secs)
    /\ UNCHANGED <<ppu_vars, machine_vars>>

NextScaled == ScaledTick

SpecScaled == InitScaled /\ [][NextScaled]_vars

----------------------------------------------------------------------------
(* NES::tick over the clock NES::new wires: the CPU's ticker, scaled by 12, *)
(* managed before the PPU's, scaled by 4.                                   *)

InitNES ==
    /\ tickers = ManagedTickers(ManagedTickers(<<>>, NES_CPU_CLOCK_FACTOR),
                                NES_PPU_CLOCK_FACTOR)
    /\ turn_order = ManagedTurnOrder(ManagedTurnOrder(<<>>, 1, 0), 2, 0)
    /\ num_ticks = 0
    /\ elapsed_cycles = 0
    /\ elapsed_seconds = 0
    /\ cycles_this_second = 0
    /\ ppu = PPUNew
    /\ ppu_dots = 0
    /\ MachineNew

NextNES ==
    /\ num_ticks < MaxNESTicks
    /\ \E running_secs \in elapsed_seconds .. MaxSeconds, line \in BOOLEAN :
          NESTick(running_secs, line)

SpecNES == InitNES /\ [][NextNES]_vars

----------------------------------------------------------------------------
(* The DMA controller ticked from construction, in either build. *)

InitDMA ==
    /\ ClockNew
    /\ ppu = PPUNew
    /\ ppu_dots = 0
    /\ nes = NESNew
    /\ \E checks \in BOOLEAN : dma = DMANew(checks)
    /\ controller = ControllerNew
    /\ apu = APUNew
    /\ cpu = CPUNew

NextDMA == DMATick

SpecDMA == InitDMA /\ [][NextDMA]_vars

----------------------------------------------------------------------------
(* The controller under any interleaving of key events, reads and writes. *)

InitController ==
    /\ ClockNew
    /\ ppu = PPUNew
    /\ ppu_dots = 0
    /\ MachineNew

NextController == ControllerKeyEvent \/ ControllerRead \/ ControllerWrite

SpecController == InitController /\ [][NextController]_vars

----------------------------------------------------------------------------
(* The controller frozen and hydrated between reads and writes, no key     *)
(* event arriving meanwhile.                                               *)

\* The controller after at most one key-down event.
HeldInputs ==
    {ControllerNew} \cup {HandleEvent(ControllerNew, b, TRUE) : b \in Buttons}

InitControllerSave ==
    /\ ClockNew
    /\ ppu = PPUNew
    /\ ppu_dots = 0
    /\ nes = NESNew
    /\ dma = DMANew(FALSE)
    /\ controller \in HeldInputs
    /\ apu = APUNew
    /\ cpu = CPUNew

NextControllerSave ==
    ControllerRead \/ ControllerWrite \/ ControllerFreeze \/ ControllerHydrate

SpecControllerSave == InitControllerSave /\ [][NextControllerSave]_vars

----------------------------------------------------------------------------
(* The APU under any interleaving of ticks, writes of $4017 and reads of    *)
(* $4015.                                                                  *)

InitAPU ==
    /\ ClockNew
    /\ ppu = PPUNew
    /\ ppu_dots = 0
    /\ MachineNew

NextAPU == APUTick \/ APUWrite \/ APURead

SpecAPU == InitAPU /\ [][NextAPU]_vars

----------------------------------------------------------------------------
(* The APU's length counters loaded by writes, with no tick in between. *)

InitAPULength ==
    /\ ClockNew
    /\ ppu = PPUNew
    /\ ppu_dots = 0
    /\ MachineNew

NextAPULength == APULengthWrite

SpecAPULength == InitAPULength /\ [][NextAPULength]_vars

----------------------------------------------------------------------------
(* The registers of the APU's pulse channels written, with no tick in      *)
(* between.                                                                *)

InitAPUPulse ==
    /\ ClockNew
    /\ ppu = PPUNew
    /\ ppu_dots = 0
    /\ MachineNew

NextAPUPulse == APUPulseWrite

SpecAPUPulse == InitAPUPulse /\ [][NextAPUPulse]_vars

----------------------------------------------------------------------------
(* The APU around the end of its four-step sequence, under any             *)
(* interleaving of ticks, writes and reads of $4015.  The APU has been     *)
(* ticked from construction up to 14915 - MaxStatusTicks.                  *)

InitAPUStatus ==
    /\ ClockNew
    /\ ppu = PPUNew
    /\ ppu_dots = 0
    /\ nes = NESNew
    /\ dma = DMANew(FALSE)
    /\ controller = ControllerNew
    /\ apu = Clocked(APUNew, 14915 - MaxStatusTicks, FALSE, FALSE)
    /\ cpu = CPUNew

NextAPUStatus ==
    \/ APUStatusTick
    \/ APUWrite
    \/ APUStatusLengthWrite
    \/ APUEnableWrite
    \/ APURead
    \/ APUDmcIrq

SpecAPUStatus == InitAPUStatus /\ [][NextAPUStatus]_vars

----------------------------------------------------------------------------
(* The CPU run over the programs of the tests and of the end-to-end        *)
(* scenarios.                                                              *)

\* The load opcodes, with the register each loads and its addressing mode.
LoadOpcodes ==
    { [opcode |-> 169, target |-> "a", mode |-> "immediate"],
      [opcode |-> 165, target |-> "a", mode |-> "zero_page"],
      [opcode |-> 181, target |-> "a", mode |-> "zero_page_indexed"],
      [opcode |-> 173, target |-> "a", mode |-> "absolute"],
      [opcode |-> 189, target |-> "a", mode |-> "absolute_indexed_x"],
      [opcode |-> 185, target |-> "a", mode |-> "absolute_indexed_y"],
      [opcode |-> 162, target |-> "x", mode |-> "immediate"],
      [opcode |-> 166, target |-> "x", mode |-> "zero_page"],
      [opcode |-> 182, target |-> "x", mode |-> "zero_page_indexed_y"],
      [opcode |-> 174, target |-> "x", mode |-> "absolute"],
      [opcode |-> 190, target |-> "x", mode |-> "absolute_indexed_y"],
      [opcode |-> 160, target |-> "y", mode |-> "immediate"],
      [opcode |-> 164, target |-> "y", mode |-> "zero_page"],
      [opcode |-> 180, target |-> "y", mode |-> "zero_page_indexed"],
      [opcode |-> 172, target |-> "y", mode |-> "absolute"],
      [opcode |-> 188, target |-> "y", mode |-> "absolute_indexed_x"] }

\* The bytes the programs load and store: 0x00, 0x01, 0x42, 0x80, 0xDE, 0xFF.
DataBytes == {0, 1, 66, 128, 222, 255}

ZeroPageModes == {"zero_page", "zero_page_indexed", "zero_page_indexed_y"}

IndexedByX == {"zero_page_indexed", "absolute_indexed_x"}

IndexedByY == {"zero_page_indexed_y", "absolute_indexed_y"}

\* The operand addresses of the programs: 0x24 and 0x80 in the zero page,
\* 0xBEDF, 0xBEEF and 0xBEF8 beyond it.
OperandAddresses(mode) ==
    IF mode = "immediate" THEN {1}
    ELSE IF mode \in ZeroPageModes THEN {36, 128}
    ELSE {48863, 48879, 48888}

\* The index register's values: 0x00 and 0x10.
IndexValues(mode) ==
    IF mode \in IndexedByX \cup IndexedByY THEN {0, 16} ELSE {0}

\* The operand bytes of an instruction.
OperandBytes(mode, base, byte) ==
    IF mode = "immediate" THEN <<byte>>
    ELSE IF mode \in ZeroPageModes THEN <<base>>
    ELSE <<base % 256, base \div 256>>

\* One load instruction, its data byte placed where base + index points.
LoadProgram(e, base, index, byte) ==
    [kind |-> "load",
     bytes |-> <<e.opcode>> \o OperandBytes(e.mode, base, byte),
     x |-> IF e.mode \in IndexedByX THEN index ELSE 0,
     y |-> IF e.mode \in IndexedByY THEN index ELSE 0,
     address |-> base + index,
     data |-> byte,
     byte |-> byte,
     target |-> e.target,
     mode |-> e.mode,
     crossed |-> (base + index) \div 256 # base \div 256]

LoadPrograms ==
    UNION { { LoadProgram(e, base, index, byte) :
                base \in OperandAddresses(e.mode),
                index \in IndexValues(e.mode),
                byte \in DataBytes } : e \in LoadOpcodes }

\* LDA #byte, STA address, LDA address, through the zero page or absolute;
\* the address holds 0x07 before.
RoundTripProgram(address, byte) ==
    [kind |-> "roundtrip",
     bytes |-> IF address < 256
               THEN <<169, byte, 133, address, 165, address>>
               ELSE <<169, byte, 141, address % 256, address \div 256,
                      173, address % 256, address \div 256>>,
     x |-> 0,
     y |-> 0,
     address |-> address,
     data |-> 7,
     byte |-> byte,
     target |-> "a",
     mode |-> IF address < 256 THEN "zero_page" ELSE "absolute",
     crossed |-> FALSE]

\* The addresses stored to: 0x10, 0x24 and 0xFF, 0xBEEF and 0xFFFF.
RoundTripPrograms ==
    { RoundTripProgram(address, byte) :
        address \in {16, 36, 255, 48879, 65535}, byte \in DataBytes }

\* Opcodes that neither decoder knows: 0x1A and 0x3A.
IllegalOpcodes == {26, 58}

\* An opcode that is not decoded, and LDA #0x42 after it.
IllegalProgram(opcode) ==
    [kind |-> "illegal",
     bytes |-> <<opcode, 169, 66>>,
     x |-> 0,
     y |-> 0,
     address |-> 16,
     data |-> 0,
     byte |-> 66,
     target |-> "a",
     mode |-> "immediate",
     crossed |-> FALSE]

IllegalPrograms == { IllegalProgram(opcode) : opcode \in IllegalOpcodes }

Programs == LoadPrograms \cup RoundTripPrograms \cup IllegalPrograms

InitCPU ==
    /\ ClockNew
    /\ ppu = PPUNew
    /\ ppu_dots = 0
    /\ nes = NESNew
    /\ dma = DMANew(FALSE)
    /\ controller = ControllerNew
    /\ apu = APUNew
    /\ cpu \in { CPUStart(program) : program \in Programs }

NextCPU == CPUStep

SpecCPU == InitCPU /\ [][NextCPU]_vars

----------------------------------------------------------------------------
(* increment_y applied to every 15-bit v. *)

InitIncrementY ==
    /\ ClockNew
    /\ \E v \in 0 .. 32767 : ppu = [PPUNew EXCEPT !.v = v]
    /\ ppu_dots = 0
    /\ MachineNew

\* A call of PPU::increment_y.
PPUIncrementY ==
    /\ ppu' = [ppu EXCEPT !.v = IncrementY(ppu.v)]
    /\ UNCHANGED <<ppu_dots, clock_vars, machine_vars>>

NextIncrementY == PPUIncrementY

SpecIncrementY == InitIncrementY /\ [][NextIncrementY]_vars

----------------------------------------------------------------------------
(* tile_address and attribute_address called for every 15-bit v. *)

InitPPUAddress ==
    /\ ClockNew
    /\ \E v \in 0 .. 32767 : ppu = [PPUNew EXCEPT !.v = v]
    /\ ppu_dots = 0
    /\ MachineNew

NextPPUAddress == PPUAddresses

SpecPPUAddress == InitPPUAddress /\ [][NextPPUAddress]_vars

----------------------------------------------------------------------------
(* The PPU ticked from construction through the pre-render line and the    *)
(* first render scanlines, PPUMASK, v and t having been written before.    *)

\* PPUMASK with rendering off, the background on, the sprites on, both on.
MaskInputs == {0, 8, 16, 24}

\* v and t: 0x0000, 0x2AAA, 0x5555, 0x7FFF.
ScrollInputs == {0, 10922, 21845, 32767}

InitPPUScroll ==
    /\ ClockNew
    /\ \E mask \in MaskInputs, v \in ScrollInputs, t \in ScrollInputs :
          ppu = [PPUNew EXCEPT !.ppumask = mask, !.v = v, !.t = t]
    /\ ppu_dots = 0
    /\ MachineNew

\* PPU::tick on the pre-render line and on the render scanlines below the
\* bound.
ScrollTick ==
    /\ ppu.scanline = 261 \/ ppu.scanline < MaxScrollLines
    /\ PPUTick

NextPPUScroll == ScrollTick

SpecPPUScroll == InitPPUScroll /\ [][NextPPUScroll]_vars

----------------------------------------------------------------------------
(* The PPU rendering the first dots of scanline 0, the pattern shift        *)
(* registers holding what earlier fetches have left in them.                *)

\* The pattern shift registers: 0x0000, 0x0055, 0x00AA, 0xFFFF.
RegisterInputs == {0, 85, 170, 65535}

InitPPURender ==
    /\ ClockNew
    /\ \E low \in RegisterInputs, high \in RegisterInputs, fine_x \in 0 .. 7 :
          ppu = [PPUNew EXCEPT !.tile_register_low = low,
                               !.tile_register_high = high,
                               !.fine_x = fine_x,
                               !.scanline = 0]
    /\ ppu_dots = 0
    /\ MachineNew

\* PPU::tick on the first dots of scanline 0.
RenderTick ==
    /\ ppu.scanline = 0
    /\ ppu.cycle <= MaxRenderDots
    /\ PPUTick

NextPPURender == RenderTick

SpecPPURender == InitPPURender /\ [][NextPPURender]_vars

----------------------------------------------------------------------------
(* What the claims about the clock speak of. *)

TickerIxs == 1 .. Len(tickers)

\* The next_tick_cycle of ticker i, read from its node in the heap.
NextTickOf(i) ==
    LET k == CHOOSE k \in 1 .. Len(turn_order) : turn_order[k].ticker_ix = i
    IN  turn_order[k].next_tick_cycle

\* The same after the step.
NextTickOfPrimed(i) ==
    LET k == CHOOSE k \in 1 .. Len(turn_order') : turn_order'[k].ticker_ix = i
    IN  turn_order'[k].next_tick_cycle

\* A step that is a Clock::tick with at least one managed ticker.
TickStep == num_ticks' = num_ticks + 1 /\ turn_order # <<>>

\* Ticker i's tick() was called in this step.
Invoked(i) == tickers'[i].value = tickers[i].value + 1

\* Ticker i's tick() was not called in this step.
NotInvoked(i) == tickers'[i].value = tickers[i].value

\* C1: on every Clock::tick with at least one managed ticker, the ticker
\* invoked is one whose next_tick_cycle is the minimum over all managed
\* tickers at that moment.
C1_TickPicksMinimum ==
    [][TickStep =>
         \A i \in TickerIxs :
            ~NotInvoked(i) => \A j \in TickerIxs : NextTickOf(i) <= NextTickOf(j)]_vars

\* A tick has chosen between tickers whose next_tick_cycles differ.
C1_Witness ==
    /\ Len(tickers) >= 2
    /\ \E i, j \in TickerIxs :
          /\ tickers[i].value >= 2
          /\ tickers[j].value >= 1
          /\ NextTickOf(i) < NextTickOf(j)

\* C2: under any interleaving of manage and tick, elapsed_cycles never
\* decreases and every managed ticker's next_tick_cycle is at least
\* elapsed_cycles.
C2_ElapsedMonotone ==
    /\ [](\A k \in 1 .. Len(turn_order) :
             turn_order[k].next_tick_cycle >= elapsed_cycles)
    /\ [][elapsed_cycles' >= elapsed_cycles]_vars

\* A ticker was managed after ticking had begun, and has not ticked yet,
\* beside one that has.
C2_Witness ==
    \E i, j \in TickerIxs :
       /\ tickers[i].value = 0
       /\ tickers[j].value >= 1
       /\ elapsed_cycles > 0
       /\ NextTickOf(i) = elapsed_cycles

\* C3: each Clock::tick with at least one managed ticker calls tick() on
\* exactly one ticker exactly once and sets that ticker's next_tick_cycle to
\* elapsed_cycles plus the cycles it returned; every other ticker's
\* next_tick_cycle and invocation count are unchanged.  With a single managed
\* ticker every tick invokes that ticker.
C3_ExactlyOneTickerAdvances ==
    [][TickStep =>
         /\ Len(tickers') = Len(tickers)
         /\ \E i \in TickerIxs :
               /\ Invoked(i)
               /\ NextTickOfPrimed(i) =
                     elapsed_cycles' + DummyTickerTick(0).cycles * tickers[i].factor
               /\ \A j \in TickerIxs \ {i} :
                     NotInvoked(j) /\ NextTickOfPrimed(j) = NextTickOf(j)
         /\ Len(tickers) = 1 => Invoked(1)]_vars

\* A tick has advanced one of several tickers, another has not run yet.
C3_Witness ==
    /\ Len(tickers) >= 2
    /\ \E i, j \in TickerIxs :
          tickers[i].value >= 1 /\ tickers[j].value = 0 /\ elapsed_cycles > 0

\* The ticker with the lower factor and the one with three times that factor.
Fast == CHOOSE i \in TickerIxs : \A j \in TickerIxs : tickers[i].factor <= tickers[j].factor

Slow == CHOOSE i \in TickerIxs : i # Fast

\* C4: a ScaledTicker with factor f consumes f master cycles per unit-cost
\* tick, so of two unit-cost tickers with factors as 1 to 3 the faster runs
\* exactly 3 times for every run of the slower once each has run, and
\* |n1 - 3 * n3| <= 3 at every state, n1 and n3 the invocation counts.
C4_ScaledRatio ==
    LET n1 == tickers[Fast].value
        n3 == tickers[Slow].value
    IN  /\ tickers[Slow].factor = 3 * tickers[Fast].factor
        /\ \A i \in TickerIxs : NextTickOf(i) = tickers[i].value * tickers[i].factor
        /\ n1 - 3 * n3 <= 3
        /\ 3 * n3 - n1 <= 3
        /\ (n1 >= 1 /\ n3 >= 1) => (3 * n3 - 2 <= n1 /\ n1 <= 3 * n3 + 1)

\* The slower ticker has run three times, the faster ten.
C4_Witness ==
    /\ Len(tickers) = 2
    /\ tickers[Slow].value = 3
    /\ tickers[Fast].value = 10

\* C5 as claimed: when several tickers share the minimum next_tick_cycle, the
\* one managed earliest is the one ticked.
C5_EarliestManagedFirst ==
    [][TickStep =>
         \A i \in TickerIxs :
            Invoked(i) =>
               \A j \in TickerIxs : NextTickOf(j) = NextTickOf(i) => i <= j]_vars

\* C5 as amended: among tied tickers the one at the root of the heap is
\* ticked, which insertion order does not determine; the first ticker managed
\* is ticked first while no ticker has run yet, and a ticker whose
\* next_tick_cycle after its tick is still no greater than any other's stays
\* at the root, to be ticked again before the tickers it ties with.
C5_TiesGoToHeapRoot ==
    [][TickStep =>
         \A i \in TickerIxs :
            Invoked(i) =>
               /\ turn_order[1].ticker_ix = i
               /\ (\A j \in TickerIxs : tickers[j].value = 0) => i = 1
               /\ (\A j \in TickerIxs : NextTickOfPrimed(i) <= NextTickOfPrimed(j))
                     => turn_order'[1].ticker_ix = i]_vars

\* A later ticker has ticked and ties with an earlier one for the minimum.
C5_Witness ==
    \E i, j \in TickerIxs :
       /\ i < j
       /\ turn_order[1].ticker_ix = j
       /\ tickers[j].value >= 1
       /\ NextTickOf(j) = NextTickOf(i)

----------------------------------------------------------------------------
(* What the claims about the PPU speak of. *)

\* The dots of a scanline and of a frame.
ScanlineDots == IdleScanlineCycles

FrameDots == 262 * ScanlineDots

\* Bit 7 (VBlank), and bits 7, 6 and 5 together, of PPUSTATUS.
VBlankFlag == BitAnd(ppu.ppustatus, 128) \div 128

StatusFlags == BitAnd(ppu.ppustatus, 224)

\* The dots returned since the PPU, ticked from construction at scanline 261
\* dot 0, stood at scanline 240 dot 0.
DotsSince240 == ppu_dots - (ScanlineDots + 240 * ScanlineDots)

\* C6: between ticks 0 <= scanline <= 261 and 0 <= dot <= 340, and neither
\* check of the dot counter against 341 fires, the post-render line's single
\* tick of 341 dots included.
C6_CountersInRange ==
    /\ ppu.scanline \in 0 .. 261
    /\ ppu.cycle \in 0 .. 340
    /\ ppu.panic \notin {"cycle", "render_cycle"}

\* The post-render line's one tick has advanced 341 dots, after the scanline
\* counter wrapped from 261 to 0.
C6_Witness ==
    /\ ppu.scanline = 241
    /\ ppu.cycle = 0
    /\ ppu_dots = ScanlineDots + 241 * ScanlineDots

\* C7 as claimed: PPU::tick is total, no sequence of ticks from the initial
\* state reaches a panic (the VBlank scanlines 242..260 idle).
C7_TickIsTotal == ppu.panic = "none"

\* C8 as claimed: a frame is 262 scanlines of 341 dots, so the PPU (rendering
\* disabled) stands where the dots returned so far place it in the frame, and
\* it goes on ticking through the frame begun at its first visit to scanline
\* 0 dot 0 until its second visit, 89342 dots later.
C8_FrameLength ==
    /\ ppu.scanline * ScanlineDots + ppu.cycle =
          (261 * ScanlineDots + ppu_dots) % FrameDots
    /\ ppu_dots < ScanlineDots + FrameDots => ppu.panic = "none"

\* C9 as claimed: the VBlank flag rises only when dot 1 of scanline 241 is
\* processed, and 341+1 dots after scanline 240 dot 0 it is 1.
C9_VBlankAfter342Dots ==
    /\ [](DotsSince240 = 0 => (ppu.scanline = 240 /\ ppu.cycle = 0 /\ VBlankFlag = 0))
    /\ [](DotsSince240 = ScanlineDots + 1 => VBlankFlag = 1)
    /\ [][VBlankFlag' # VBlankFlag => (ppu.scanline = 241 /\ ppu.cycle = 1)]_vars

\* C9 as amended: the VBlank flag rises when dot 1 of scanline 241 is
\* processed and at no other dot; 341+1 dots after scanline 240 dot 0 the PPU
\* stands at dot 1 of scanline 241 with the flag still 0, and after 341+2
\* dots, dot 1 processed, the flag is 1.
C9_VBlankAfter343Dots ==
    /\ [](DotsSince240 = 0 => (ppu.scanline = 240 /\ ppu.cycle = 0 /\ VBlankFlag = 0))
    /\ [](DotsSince240 = ScanlineDots + 1 =>
             (ppu.scanline = 241 /\ ppu.cycle = 1 /\ VBlankFlag = 0))
    /\ [](DotsSince240 = ScanlineDots + 2 => VBlankFlag = 1)
    /\ [][VBlankFlag' # VBlankFlag => (ppu.scanline = 241 /\ ppu.cycle = 1)]_vars
    /\ [][(ppu.scanline = 241 /\ ppu.cycle = 1 /\ ppu' # ppu) => VBlankFlag' = 1]_vars

\* Dot 1 of scanline 241 has just been processed and the flag is up.
C9_Witness ==
    /\ DotsSince240 = ScanlineDots + 2
    /\ ppu.scanline = 241
    /\ ppu.cycle = 2
    /\ VBlankFlag = 1

----------------------------------------------------------------------------
(* What the claims about NES::tick and the DMA controller speak of. *)

\* C11: NMI delivery is edge-triggered: cpu.trigger_nmi() has been called
\* once for each sample of the NMI line that found it asserted after a sample
\* that found it deasserted, so that no NMI is delivered while the line stays
\* asserted, and nmi_pin is the level last sampled.
C11_NmiEdgeTriggered ==
    /\ nes.nmis = nes.edges
    /\ nes.nmi_pin = nes.line

\* The line was asserted, released and asserted again, and has now been
\* sampled asserted twice in a row.
C11_Witness == nes.edges = 2 /\ nes.high_run = 2 /\ nes.nmis = 2

\* The byte that a transfer of page h copies k-th (from 0), with where it is
\* loaded from and stored to.
ExpectedCopy(h, k) ==
    [from |-> h * 256 + k, to |-> OamData, byte |-> CpuMemory(h * 256 + k)]

\* The CPU is run by this step.
CpuRuns == dma'.cpu_ticks = dma.cpu_ticks + 1

\* C12: every byte H written to $4014 starts one transfer of 256 bytes, the
\* k-th loaded from (H << 8) | k and stored to $2004: no transfer copies more
\* than 256 bytes, each byte copied is the expected one, and when the CPU next
\* runs after its write the whole page has been copied.
C12_EveryWriteTransfers ==
    [][/\ Len(dma'.copies) <= 256
       /\ (dma'.written # NoStore =>
              \A k \in 1 .. Len(dma'.copies) :
                  dma'.copies[k] = ExpectedCopy(dma'.written, k - 1))
       /\ (CpuRuns /\ dma.written # NoStore => Len(dma.copies) = 256)]_vars

\* C13: when the 256th byte has been copied, the ticks since the write to
\* $4014 have returned 513 cycles in all, or 514 when the write fell on an
\* odd CPU cycle.
C13_StallIs513Or514 ==
    (dma.written # NoStore /\ Len(dma.copies) = 256 /\ ~dma.delegated) =>
        dma.stall = (IF dma.odd_start THEN 514 ELSE 513)

\* A tick is about to copy: $4014 holds a trigger, or a copy is under way.
CopyDue == dma.register # 0 \/ dma.copies_remaining > 0

\* C14: a tick of the DMA controller that finds a copy due does not run the
\* CPU, copies one byte and returns 2; any other tick runs the CPU exactly
\* once and returns the cycles the CPU returned.
C14_CpuSuspendedDuringCopy ==
    [][(dma' # dma /\ ~dma'.panic) =>
          IF CopyDue
          THEN /\ dma'.cpu_ticks = dma.cpu_ticks
               /\ dma'.returned = 2
               /\ ~dma'.delegated
               /\ Len(dma'.copies) = Len(dma.copies) + 1
          ELSE /\ dma'.cpu_ticks = dma.cpu_ticks + 1
               /\ dma'.returned = dma'.cpu_returned
               /\ dma'.delegated
               /\ dma'.copies_remaining = 0]_vars

\* A page has been copied in full and the CPU has run again since.
C14_Witness ==
    /\ Len(dma.copies) = 256
    /\ dma.copies_remaining = 0
    /\ dma.delegated
    /\ dma.cpu_ticks = 2

----------------------------------------------------------------------------
(* What the claims about the controller speak of. *)

\* The last operation was a read, and the byte it returned has in bit 0 the
\* pressed state of the button.
ReadReturned(button) ==
    /\ controller.op = "read"
    /\ controller.button = button
    /\ (controller.byte % 2 = 1) = IsPressed(controller, button)

\* C15: after a write of strobe 1 followed directly by a write of strobe 0,
\* from whatever state, the k-th read (k = 1..8) returns the pressed state of
\* the k-th button of A, B, Select, Start, Up, Down, Left, Right.
C15_StrobeThenEightReads ==
    (controller.op = "read" /\ controller.clean /\ controller.released \in 1 .. 8)
        => ReadReturned(STROBE_ORDER[controller.released])

\* C16: after the strobe bit has gone from 1 to 0, the k-th read (k = 1..8)
\* returns the pressed state of the k-th button of A, B, Select, Start, Up,
\* Down, Left, Right, and every later read returns 1.
C16_OnesAfterEighthRead ==
    (controller.op = "read" /\ controller.released >= 1) =>
        IF controller.released <= 8
        THEN ReadReturned(STROBE_ORDER[controller.released])
        ELSE controller.byte % 2 = 1

\* C17: a read made while the strobe bit is 1 returns the pressed state of
\* button A, whatever the index was before.
C17_StrobeHighReadsA ==
    (controller.op = "read" /\ BitAnd(controller.register, 1) = 1)
        => ReadReturned("A")

\* A read under strobe found the index at 3 and returned A, pressed.
C17_Witness ==
    /\ controller.op = "read"
    /\ controller.register = 1
    /\ controller.prev_ix = 3
    /\ controller.button = "A"
    /\ controller.byte % 2 = 1

\* The byte 0x40 | b.
OpenBusByte(pressed) == 64 + (IF pressed THEN 1 ELSE 0)

\* C18: every read returns 0x40 | b, with b the pressed state of the button
\* the index selects, and b is 0 for a button no key event has named.
C18_ReadReturnsOpenBusBits ==
    controller.op = "read" =>
        controller.byte = OpenBusByte(IsPressed(controller, controller.button))

\* The operations a caller may make after a hydrate.
Ops == {"read", "write0", "write1"}

\* The sequences of at most MaxOps operations.
OpSeqs == UNION {[1 .. n -> Ops] : n \in 0 .. MaxOps}

\* The controller after operation o.
Apply(c, o) ==
    IF o = "read" THEN Read(c) ELSE Write(c, IF o = "write1" THEN 1 ELSE 0)

\* What the caller sees of operation o that left the controller as d: the
\* byte of a read, nothing of a write.
Seen(d, o) == IF o = "read" THEN d.byte ELSE 0 - 1

\* What the caller sees of the operations ops made on c.
RECURSIVE Outputs(_, _)
Outputs(c, ops) ==
    IF ops = <<>> THEN <<>>
    ELSE <<Seen(Apply(c, Head(ops)), Head(ops))>>
             \o Outputs(Apply(c, Head(ops)), Tail(ops))

\* The controller with strobe_ix and register as they were at the freeze.
AsAtFreeze ==
    [controller EXCEPT !.strobe_ix = controller.at_freeze.strobe_ix,
                       !.register = controller.at_freeze.register]

\* C19: after hydrate of the state that freeze returned, whatever reads and
\* writes were made in between, every sequence of reads and writes returns
\* what it would have returned right after the freeze.
C19_HydrateRestoresFreeze ==
    controller.op = "hydrate" =>
        \A ops \in OpSeqs : Outputs(controller, ops) = Outputs(AsAtFreeze, ops)

\* A hydrate found strobe_ix or register changed since the freeze.
C19_Witness == controller.op = "hydrate" /\ controller.changed

----------------------------------------------------------------------------
(* What the claims about the APU speak of. *)

\* The cycle at which the frame sequencer is to wrap in mode.
SequenceLength(mode) == IF mode = "FourStep" THEN 14915 ELSE 18641

\* C20: after every tick of the APU the cycle counter is below 14915 in
\* four-step mode and below 18641 in five-step mode, however ticks and
\* writes of $4017 interleave.
C20_CounterBelowSequenceLength ==
    [][apu'.cycle_counter # apu.cycle_counter =>
          apu'.cycle_counter < SequenceLength(apu'.sequence_mode)]_vars

\* C21: a write to $4017 leaves the cycle counter at 0 and, when bit 7 of the
\* byte is set (five-step mode), clocks the quarter-frame and the half-frame
\* units once.
C21_ModeWriteResetsAndClocks ==
    apu.op = "write4017" =>
        /\ apu.cycle_counter = 0
        /\ (apu.sequence_mode = "FiveStep" => apu.quarter /\ apu.half)

\* The last operation was a tick in four-step mode.
FourStepTick == apu.op = "tick" /\ apu.sequence_mode = "FourStep"

C23_FrameIrqOnlyUninhibited ==
    [][(apu'.op = "tick" /\ apu' # apu /\ ~apu.irq_flag /\ apu'.irq_flag) =>
          /\ apu'.step = 14915
          /\ apu'.sequence_mode = "FourStep"
          /\ ~apu'.inhibit]_vars

\* The length counter that a write to address loads.
ChannelLength(a, address) ==
    IF address = 16387 THEN a.pulse_1_length
    ELSE IF address = 16391 THEN a.pulse_2_length
    ELSE IF address = 16395 THEN a.triangle_length
    ELSE a.noise_length

\* C24: a write of b to $4003, $4007, $400B or $400F leaves the length
\* counter of pulse 1, pulse 2, triangle or noise at entry b >> 3 of the
\* length table, whatever the low three bits of b, and entry 1 is 254.
C24_LengthFromTable ==
    /\ LENGTH_COUNTER_LOOKUP[1 + 1] = 254
    /\ Len(LENGTH_COUNTER_LOOKUP) = 32
    /\ apu.op = "write_length" =>
          ChannelLength(apu, apu.address) =
              LENGTH_COUNTER_LOOKUP[(apu.byte \div 8) + 1]

\* $4003 has been written with index 1 and low bits 111.
C24_Witness ==
    /\ apu.op = "write_length"
    /\ apu.address = 16387
    /\ apu.byte = 15
    /\ apu.pulse_1_length = 254

----------------------------------------------------------------------------
(* What the claims about the CPU and its RAM speak of. *)

\* The one instruction of a load program has been executed.
LoadDone == cpu.program.kind = "load" /\ cpu.steps = 1

\* The register a load program loads.
TargetRegister(c) ==
    IF c.program.target = "a" THEN c.a
    ELSE IF c.program.target = "x" THEN c.x
    ELSE c.y

\* The cycles of a load whose address crosses no page.
LoadCycles(mode) ==
    IF mode = "immediate" THEN 2
    ELSE IF mode = "zero_page" THEN 3
    ELSE 4

IndexedLoadProgram ==
    LoadProgram([opcode |-> 185, target |-> "a",
                 mode |-> "absolute_indexed_y"], 48863, 16, 222)

\* C26, as stated: with Y = 0x10 and memory[0xBEEF] = 0xDE, B9 DF BE loads
\* A = 0xDE and takes 5 cycles.
C26_IndexedLoadTakesFive ==
    (cpu.program = IndexedLoadProgram /\ cpu.steps = 1) =>
        cpu.a = 222 /\ cpu.returned = 5

\* C26, amended: with Y = 0x10 and memory[0xBEEF] = 0xDE, B9 DF BE loads
\* A = 0xDE and takes 4 cycles, 0xBEDF + 0x10 lying in the page of 0xBEDF.
C26_IndexedLoadTakesFour ==
    (cpu.program = IndexedLoadProgram /\ cpu.steps = 1) =>
        cpu.a = 222 /\ cpu.returned = 4

\* B9 DF BE has been executed.
C26_Witness ==
    /\ cpu.program = IndexedLoadProgram
    /\ cpu.steps = 1
    /\ cpu.a = 222
    /\ cpu.returned = 4
    /\ ~cpu.program.crossed

\* Every address but one holds in memory what it held in before.
UnchangedBut(memory, before, address) ==
    \A x \in (DOMAIN memory \cup DOMAIN before) \ {address} :
        RamLoad(memory, x) = RamLoad(before, x)

\* C27: after the store of b at a, the load at a returns b and every other
\* address is unchanged; the program A9 42 85 10 A5 10 ends with A = 0x42
\* and memory[0x0010] = 0x42 after 8 cycles.
C27_StoreThenLoad ==
    /\ (cpu.program.kind = "roundtrip" /\ cpu.steps = 2) =>
          /\ RamLoad(cpu.memory, cpu.program.address) = cpu.program.byte
          /\ UnchangedBut(cpu.memory, cpu.before, cpu.program.address)
    /\ (cpu.program.kind = "roundtrip" /\ cpu.steps = 3) =>
          /\ cpu.a = cpu.program.byte
          /\ RamLoad(cpu.memory, cpu.program.address) = cpu.program.byte
          /\ cpu.memory = cpu.before
    /\ (cpu.program = RoundTripProgram(16, 66) /\ cpu.steps = 3) =>
          /\ cpu.a = 66
          /\ RamLoad(cpu.memory, 16) = 66
          /\ cpu.cycles = 8

\* A9 42 85 10 A5 10 has run to its end.
C27_Witness ==
    /\ cpu.program = RoundTripProgram(16, 66)
    /\ cpu.steps = 3
    /\ cpu.pc = 6
    /\ cpu.a = 66
    /\ RamLoad(cpu.memory, 16) = 66
    /\ RamLoad(cpu.before, 16) = 66
    /\ cpu.cycles = 8

\* C28: executing an opcode that is not decoded does not abort: the CPU has
\* not panicked after it.
C28_IllegalOpcodeIsNotFatal ==
    (cpu.steps > 0 /\ cpu.opcode \in IllegalOpcodes) => ~cpu.panic

----------------------------------------------------------------------------
(* What the claims about the PPU's scrolling speak of. *)

\* v with bit 11, the vertical nametable bit, toggled.
ToggleBit11(v) == IF (v \div 2048) % 2 = 1 THEN v - 2048 ELSE v + 2048

\* The Y increment of v (yyy NN YYYYY XXXXX) where fine Y is 7: fine Y is
\* reset, and coarse Y wraps from 29 with the nametable switched, wraps from
\* 31 without, and is incremented otherwise.
CoarseYStep(v, coarse_y) ==
    IF coarse_y = 29 THEN ToggleBit11(v - 7 * 4096 - 29 * 32)
    ELSE IF coarse_y = 31 THEN v - 7 * 4096 - 31 * 32
    ELSE v - 7 * 4096 + 32

\* The Y increment of v: fine Y, bits 12 to 14, is incremented below 7.
YIncremented(v) ==
    IF (v \div 4096) % 8 < 7 THEN v + 4096
    ELSE CoarseYStep(v, (v \div 32) % 32)

\* C29: increment_y takes every 15-bit v to v with fine Y incremented when
\* fine Y is below 7, and otherwise to v with fine Y reset and coarse Y
\* stepped (29 to 0 with bit 11 toggled, 31 to 0 without, else plus 1);
\* coarse X and the horizontal nametable bit do not change.
C29_IncrementYStepsFineThenCoarse ==
    [][/\ ppu'.v = YIncremented(ppu.v)
       /\ ppu'.v % 32 = ppu.v % 32
       /\ (ppu'.v \div 1024) % 2 = (ppu.v \div 1024) % 2]_vars

\* The PPU stands at a dot with rendering enabled.
Rendering == BitAnd(ppu.ppumask, 8) # 0 \/ BitAnd(ppu.ppumask, 16) # 0

\* The tick copies the bits of mask from t to v and leaves the other bits
\* of v, and t, as they are.
CopiesFromT(mask) ==
    /\ BitAnd(ppu'.v, mask) = BitAnd(ppu.t, mask)
    /\ BitAnd(ppu'.v, 65535 - mask) = BitAnd(ppu.v, 65535 - mask)
    /\ ppu'.t = ppu.t

\* C30: a tick with rendering disabled leaves v as it is; with rendering
\* enabled the tick at dot 257 of a render scanline copies the bits 0x041F
\* of t to v, and each tick at dots 280 to 304 of the pre-render scanline
\* copies the bits 0x7BE0 of t to v, the other bits of v and t unchanged.
C30_ScrollCopiesWhileRendering ==
    [][/\ ~Rendering => ppu'.v = ppu.v
       /\ (Rendering /\ ppu.scanline < 240 /\ ppu.cycle = 257) =>
             CopiesFromT(1055)
       /\ (Rendering /\ ppu.scanline = 261 /\ ppu.cycle >= 280
              /\ ppu.cycle <= 304) =>
             CopiesFromT(31712)]_vars

\* With rendering enabled the PPU has processed dots 280 to 304 of the
\* pre-render line and dot 257 of scanline 0, t being 0x5555.
C30_Witness ==
    /\ Rendering
    /\ ppu.scanline = 0
    /\ ppu.cycle = 258
    /\ ppu.t = 21845
    /\ BitAnd(ppu.v, 1055) = BitAnd(ppu.t, 1055)
    /\ ppu.panic = "none"

----------------------------------------------------------------------------
(* What the claims about the PPU's fetches and pixels speak of. *)

\* The attribute-table address of v: 0x23C0, the nametable bits 10 and 11 of
\* v, the high three bits of coarse Y and the high three bits of coarse X.
AttributeAddressOf(v) ==
    9152 + ((v \div 1024) % 4) * 1024 + ((v \div 128) % 8) * 8
         + ((v \div 4) % 8)

\* C31: for every 15-bit v the attribute address is
\* 0x23C0 | (v & 0x0C00) | ((v >> 4) & 0x38) | ((v >> 2) & 0x07) and the
\* nametable address is 0x2000 | (v & 0x0FFF).
C31_TileAndAttributeAddress ==
    ppu.tile_address # NoAddress =>
        /\ ppu.tile_address = 8192 + (ppu.v % 4096)
        /\ ppu.attribute_address = AttributeAddressOf(ppu.v)

\* The dot the tick processes lies in the fetch pipeline of a render
\* scanline: dots 1 to 256 and 321 to 336.
PipelineDot ==
    /\ ppu.scanline < 240 \/ ppu.scanline = 261
    /\ (ppu.cycle >= 1 /\ ppu.cycle <= 256)
          \/ (ppu.cycle >= 321 /\ ppu.cycle <= 336)

\* coarse X of v after its increment.
CoarseXAfter(v) == ((v % 32) + 1) % 32

\* C32: in each 8-dot group of the fetch pipeline the tick at dot 1 (mod 8)
\* reads the nametable byte, at dot 3 the attribute byte, at dot 5 the
\* pattern low byte and at dot 7 the pattern high byte, and with rendering
\* enabled the tick at dot 0 (mod 8) increments coarse X of v.
C32_FetchOrderInEightDots ==
    [][PipelineDot =>
          /\ ppu.cycle % 8 = 1 => ppu'.fetch = "nametable"
          /\ ppu.cycle % 8 = 3 => ppu'.fetch = "attribute"
          /\ ppu.cycle % 8 = 5 => ppu'.fetch = "pattern_low"
          /\ ppu.cycle % 8 = 7 => ppu'.fetch = "pattern_high"
          /\ (ppu.cycle % 8 = 0 /\ Rendering) =>
                ppu'.v % 32 = CoarseXAfter(ppu.v)]_vars

\* Bit fine_x of a pattern shift register.
PatternBit(register, fine_x) == (register \div (2 ^ fine_x)) % 2

\* The tick emits a pixel.
EmitsPixel == ppu'.pixels = ppu.pixels + 1

\* C33: the colour index of a rendered pixel is (high_bit << 1) | low_bit,
\* the bits being bit fine_x of the high and low pattern shift registers;
\* no tick reaches the 'unexpected colour index' panic.
C33_ColourIndexFromBothBits ==
    [][/\ ppu'.panic # "colour_index"
       /\ EmitsPixel =>
             ppu'.colour_index =
                 2 * PatternBit(ppu.tile_register_high, ppu.fine_x)
                   + PatternBit(ppu.tile_register_low, ppu.fine_x)]_vars

\* The dot the tick processes is a visible one: dots 1 to 256 of scanlines
\* 0 to 239.
VisibleDot == ppu.scanline < 240 /\ ppu.cycle >= 1 /\ ppu.cycle <= 256

\* The pixels of the first frame emitted when the PPU stands at scanline,
\* cycle; the frame starts on the dummy scanline 261.
PixelsBy(scanline, cycle) ==
    IF scanline = 261 THEN 0
    ELSE IF scanline >= 240 THEN 256 * 240
    ELSE 256 * scanline
           + (IF cycle = 0 THEN 0 ELSE IF cycle > 256 THEN 256 ELSE cycle - 1)

\* C34: a tick emits one pixel when it processes dots 1 to 256 of scanlines
\* 0 to 239 and none at any other dot of any scanline, so that each visible
\* scanline emits 256 pixels and the frame 256 x 240.
C34_PixelsOnVisibleDotsOnly ==
    /\ [][ppu' # ppu =>
             ppu'.pixels = ppu.pixels + (IF VisibleDot THEN 1 ELSE 0)]_vars
    /\ [](ppu.pixels = PixelsBy(ppu.scanline, ppu.cycle))

\* The frame's last visible scanline has been left with 256 x 240 pixels
\* emitted.
C34_Witness ==
    /\ ppu.scanline = 241
    /\ ppu.cycle = 1
    /\ ppu.pixels = 61440
    /\ ppu.panic = "none"

\* The last operation was a write to address.
WroteTo(address) ==
    /\ apu'.writes = apu.writes + 1
    /\ apu'.address = address

\* The write left pulse 1 as it was.
Pulse1Unchanged ==
    /\ apu'.pulse_1_period = apu.pulse_1_period
    /\ apu'.pulse_1_length = apu.pulse_1_length
    /\ apu'.pulse_1_sweep = apu.pulse_1_sweep

\* The write left pulse 2 as it was, but for its sweep unit.
Pulse2UnchangedButSweep ==
    /\ apu'.pulse_2_period = apu.pulse_2_period
    /\ apu'.pulse_2_length = apu.pulse_2_length

\* The write left the triangle, the noise and the DMC as they were.
OthersUnchanged ==
    /\ apu'.triangle_length = apu.triangle_length
    /\ apu'.noise_length = apu.noise_length
    /\ apu'.dmc_irq_flag = apu.dmc_irq_flag

\* C35: a write to $4006 replaces the low 8 bits of pulse 2's period and
\* leaves its high bits and pulse 1 unchanged; a write to $4005 hands its
\* byte to pulse 2's sweep unit as a write to $4001 does to pulse 1's; neither
\* changes another channel.
C35_Pulse2RoutedLikePulse1 ==
    [][/\ WroteTo(16390) =>
             /\ apu'.pulse_2_period =
                    (apu.pulse_2_period \div 256) * 256 + apu'.byte
             /\ apu'.pulse_2_length = apu.pulse_2_length
             /\ apu'.pulse_2_sweep = apu.pulse_2_sweep
             /\ Pulse1Unchanged
             /\ OthersUnchanged
       /\ WroteTo(16389) =>
             /\ apu'.pulse_2_sweep = apu'.byte
             /\ Pulse2UnchangedButSweep
             /\ Pulse1Unchanged
             /\ OthersUnchanged
       /\ WroteTo(16385) =>
             /\ apu'.pulse_1_sweep = apu'.byte
             /\ apu'.pulse_1_period = apu.pulse_1_period
             /\ apu'.pulse_1_length = apu.pulse_1_length
             /\ Pulse2UnchangedButSweep
             /\ apu'.pulse_2_sweep = apu.pulse_2_sweep
             /\ OthersUnchanged]_vars

\* C36: while a DMA copies, base_address + 256 fits 16 bits, so that no tick
\* overflows in computing base_address + 256 - copies_remaining, and every
\* address copied from lies in the page, base_address to base_address + 255.
C36_CopyAddressWithinSixteenBits ==
    /\ ~dma.panic
    /\ dma.copies_remaining > 0 => dma.base_address + 256 <= 65535
    /\ \A i \in 1 .. Len(dma.copies) :
          /\ dma.copies[i].from >= dma.base_address
          /\ dma.copies[i].from <= dma.base_address + 255

\* The last operation was a read of $4015.
ReadStep == apu' # apu /\ apu'.op = "read"

\* Bit n of a byte.
Bit(byte, n) == (byte \div (2 ^ n)) % 2 = 1

\* C37: a frame IRQ flag that is set stays set, and irq_triggered() true,
\* through every tick and write; a read of $4015 returns the frame IRQ flag
\* in bit 6, the DMC's IRQ flag in bit 5 and in bits 0 to 3 whether the length
\* counters of pulse 1, pulse 2, triangle and noise are not zero, and it
\* clears the frame IRQ flag and leaves the DMC's IRQ flag and the length
\* counters as they were.
C37_FrameIrqHeldUntilStatusRead ==
    [][/\ (apu.irq_flag /\ ~ReadStep) =>
             apu'.irq_flag /\ IrqTriggered(apu')
       /\ ReadStep =>
             /\ Bit(apu'.status, 6) = apu.irq_flag
             /\ Bit(apu'.status, 5) = apu.dmc_irq_flag
             /\ Bit(apu'.status, 0) = (apu.pulse_1_length # 0)
             /\ Bit(apu'.status, 1) = (apu.pulse_2_length # 0)
             /\ Bit(apu'.status, 2) = (apu.triangle_length # 0)
             /\ Bit(apu'.status, 3) = (apu.noise_length # 0)
             /\ ~apu'.irq_flag
             /\ apu'.dmc_irq_flag = apu.dmc_irq_flag
             /\ apu'.pulse_1_length = apu.pulse_1_length
             /\ apu'.pulse_2_length = apu.pulse_2_length
             /\ apu'.triangle_length = apu.triangle_length
             /\ apu'.noise_length = apu.noise_length]_vars

\* A read of $4015 in five-step mode has returned the frame IRQ flag that
\* the end of the four-step sequence set, the DMC's IRQ flag and pulse 2's
\* length counter, and has cleared the first alone.
C37_Witness ==
    /\ apu.op = "read"
    /\ apu.sequence_mode = "FiveStep"
    /\ apu.status = 64 + 32 + 2
    /\ ~apu.irq_flag
    /\ apu.dmc_irq_flag
    /\ apu.pulse_2_length = 254

\* The calls of Clock::tick that invoke other tickers between two
\* invocations of ticker i: each other ticker j is invoked at most
\* factor_i / factor_j times, rounded down, and once more.
RECURSIVE WaitBound(_, _)
WaitBound(i, j) ==
    IF j = 0 THEN 0
    ELSE WaitBound(i, j - 1)
           + (IF j = i THEN 0
              ELSE (tickers[i].factor \div tickers[j].factor) + 1)

\* The invocations that can have been made by the time the clock shows
\* elapsed_cycles: each of the first j tickers is invoked once and then at
\* most once in each factor cycles.
RECURSIVE TickBound(_)
TickBound(j) ==
    IF j = 0 THEN 0
    ELSE TickBound(j - 1) + (elapsed_cycles \div tickers[j].factor) + 1

RECURSIVE Invocations(_)
Invocations(j) ==
    IF j = 0 THEN 0 ELSE Invocations(j - 1) + tickers[j].value

\* C38: no ticker waits through more calls of Clock::tick than WaitBound
\* before it is invoked again, and the invocations made are at most those
\* that elapsed_cycles allows, so that elapsed_cycles grows with them.
C38_NoTickerStarved ==
    /\ \A i \in 1 .. Len(tickers) :
          tickers[i].waited <= WaitBound(i, Len(tickers))
    /\ Invocations(Len(tickers)) <= TickBound(Len(tickers))

\* A ticker that has been invoked before has waited through as many calls
\* as three other invocations take and is at the root, to be invoked next.
C38_Witness ==
    /\ Len(tickers) = 3
    /\ \E i \in 1 .. Len(tickers) :
          /\ tickers[i].value > 0
          /\ tickers[i].waited >= 3
          /\ turn_order[1].ticker_ix = i

====
